---- MODULE Spec2Model ----
(***************************************************************************)
(* Movie Review & Recommendation System (Flask + MySQL).                   *)
(*                                                                         *)
(* The tables of the relational store are the state; every route handler   *)
(* of app.py is one action; every query of models.py is an operator that   *)
(* computes what the SQL statement computes.  Scores are kept in tenths    *)
(* (6.9 is 69, 7.0 is 70, 10 is 100).                                      *)
(***************************************************************************)
EXTENDS Integers, Sequences, FiniteSets, TLC

VARIABLES
    User,              \* table User
    Movie,             \* table Movie
    TV_Show,           \* table TV_Show
    Movie_Genre,       \* table Movie_Genre
    Reviews,           \* table Reviews
    Friends,           \* table Friends
    User_Preferences,  \* table User_Preferences
    next_id,           \* AUTO_INCREMENT counters of User, Movie and Reviews
    session,           \* the Flask session of the one client
    request,           \* the request being answered (route, method, form)
    response,          \* the answer: flashed notice, target, model calls made
    deleted            \* history: movies removed by admin_delete_movie while reviewed

vars == <<User, Movie, TV_Show, Movie_Genre, Reviews, Friends, User_Preferences,
          next_id, session, request, response, deleted>>

db == <<User, Movie, TV_Show, Movie_Genre, Reviews, Friends, User_Preferences, next_id>>

----------------------------------------------------------------------------
(* Values *)

\* Python None and SQL NULL for an integer column or argument
NULL == -1

\* request.form.get(key) of a field the form does not carry
MISSING == "<missing>"

\* bounds of the model
MaxReviewId == 2
MaxMovieId == 3
MaxUserId == 5
MaxRows == 3

Min(a, b) == IF a < b THEN a ELSE b

----------------------------------------------------------------------------
(* Form parsing *)

\* float(text) as request.form.get('score', type=float) applies it: a number
\* in tenths, NaN, or None when the field is missing or float() raises
ParseFloat(text) ==
    CASE text = "nan"  -> [tag |-> "nan", v |-> 0]
      [] text = "-1"   -> [tag |-> "num", v |-> -10]
      [] text = "0"    -> [tag |-> "num", v |-> 0]
      [] text = "0.5"  -> [tag |-> "num", v |-> 5]
      [] text = "6.9"  -> [tag |-> "num", v |-> 69]
      [] text = "7"    -> [tag |-> "num", v |-> 70]
      [] text = "10"   -> [tag |-> "num", v |-> 100]
      [] text = "10.1" -> [tag |-> "num", v |-> 101]
      [] text = "11"   -> [tag |-> "num", v |-> 110]
      [] OTHER         -> [tag |-> "none", v |-> 0]

\* Python truth value of a parsed float: None and 0.0 are false, NaN is true
FloatTruthy(x) == x.tag = "nan" \/ (x.tag = "num" /\ x.v # 0)

\* x < n and x > n of Python floats: every comparison with NaN is false
FloatLess(x, n) == x.tag = "num" /\ x.v < n
FloatGreater(x, n) == x.tag = "num" /\ x.v > n

\* int(text) as add_review applies it to movie_id and show_id: None when the
\* text is empty or missing (never converted) or when int() raises
ParseInt(text) ==
    CASE text = "0" -> 0
      [] text = "1" -> 1
      [] text = "2" -> 2
      [] text = "3" -> 3
      [] text = "4" -> 4
      [] text = "9" -> 9
      [] text = "12" -> 12
      [] text = "30" -> 30
      [] text = "1800" -> 1800
      [] text = "2000" -> 2000
      [] OTHER      -> NULL

\* Python truth value of a string from the form (None and '' are false)
StrTruthy(s) == s # MISSING /\ s # ""

\* Python truth value of an optional int (None and 0 are false)
IntTruthy(n) == n # NULL /\ n # 0

----------------------------------------------------------------------------
(* Passwords *)

generate_password_hash(password) == [method |-> "pbkdf2", of |-> password]

check_password_hash(pwhash, password) == pwhash.method = "pbkdf2" /\ pwhash.of = password

----------------------------------------------------------------------------
(* models.py: class User *)

\* SELECT * FROM User WHERE Email = %s; results[0] if results else None
get_user_by_name(email) == {u \in User : u.Name = email}

get_user_by_email(email) == {u \in User : u.Email = email}

\* SELECT * FROM User WHERE User_ID = %s; results[0] if results else None
get_user_by_id(user_id) == {u \in User : u.User_ID = user_id}

verify_password(user, password) == check_password_hash(user.PasswordHash, password)

----------------------------------------------------------------------------
(* The stored procedures and the schema's constraints *)

\* Reviews.Score is a numeric column: the store takes no NaN
ScoreColumnAccepts(x) == x.tag = "num"

\* the reviews of one content item by one user
ReviewsOf(user_id, movie_id, show_id) ==
    {r \in Reviews : /\ r.User_ID = user_id
                     /\ \/ (movie_id # NULL /\ r.Movie_ID = movie_id)
                        \/ (show_id # NULL /\ r.Show_ID = show_id)}

\* CALL sp_add_review(user, movie, show, score, title, content): one review
\* per (user, content item); the rows it references must exist
sp_add_review(user_id, movie_id, show_id, score, title, content) ==
    IF \/ ~ScoreColumnAccepts(score)
       \/ ReviewsOf(user_id, movie_id, show_id) # {}
       \/ get_user_by_id(user_id) = {}
       \/ (movie_id # NULL /\ movie_id \notin {m.Movie_ID : m \in Movie})
       \/ (show_id # NULL /\ show_id \notin {s.Show_ID : s \in TV_Show})
    THEN [raised |-> TRUE, Reviews |-> Reviews, next_id |-> next_id]
    ELSE [raised |-> FALSE,
          Reviews |-> Reviews \cup
              {[Review_ID |-> next_id.Reviews, User_ID |-> user_id,
                Movie_ID |-> movie_id, Show_ID |-> show_id,
                Score |-> score.v, Title |-> title, Content |-> content]},
          next_id |-> [next_id EXCEPT !.Reviews = @ + 1]]

----------------------------------------------------------------------------
(* models.py: class Review *)

create_review_swallows(user_id, score, title, content, movie_id, show_id) ==
    LET r == sp_add_review(user_id, movie_id, show_id, score, title, content)
    IN  [raised |-> FALSE, Reviews |-> r.Reviews, next_id |-> r.next_id]

\* the procedure's error is logged and raised again
create_review(user_id, score, title, content, movie_id, show_id) ==
    LET r == sp_add_review(user_id, movie_id, show_id, score, title, content)
    IN  [raised |-> r.raised, Reviews |-> r.Reviews, next_id |-> r.next_id]

\* SELECT r.*, ... FROM Reviews r LEFT JOIN ... WHERE r.Review_ID = %s
get_review_by_id(review_id) == {r \in Reviews : r.Review_ID = review_id}

\* UPDATE Reviews SET Score, Title, Content, Updated_At WHERE Review_ID = %s
update_review(review_id, score, title, content) ==
    IF ~ScoreColumnAccepts(score)
    THEN [raised |-> TRUE, Reviews |-> Reviews]
    ELSE [raised |-> FALSE,
          Reviews |-> {IF r.Review_ID = review_id
                       THEN [r EXCEPT !.Score = score.v, !.Title = title,
                                      !.Content = content]
                       ELSE r : r \in Reviews}]

\* DELETE FROM Reviews WHERE Review_ID = %s
delete_review_row(review_id) == {r \in Reviews : r.Review_ID # review_id}

----------------------------------------------------------------------------
(* Responses *)

\* the notice flashed, the page or redirect target, the model functions called
\* in order, and the rows handed to the template
ReplyData(flash, goto, calls, data) ==
    [flash |-> flash, goto |-> goto, calls |-> calls, data |-> data]

Reply(flash, goto, calls) == ReplyData(flash, goto, calls, <<>>)

\* a handler that answers without writing to the store or the session
Answer(flash, goto, calls) ==
    /\ response' = Reply(flash, goto, calls)
    /\ UNCHANGED <<db, session, deleted>>

login_required_open(body) == body

\* models.py login_required: 'user_id' not in session
login_required(body) ==
    IF session.user_id = NULL
    THEN Answer("Please log in to access this page.", "login", <<>>)
    ELSE body

----------------------------------------------------------------------------
(* app.py: login, logout *)

NoSession == [user_id |-> NULL, user_name |-> MISSING, user_role |-> MISSING]

LoginFailedNotice == "Login failed. Please try again."

login_clears_on_failure(form) ==
    /\ request' = [route |-> "login", method |-> "POST", form |-> form]
    /\ IF ~StrTruthy(form.email) \/ ~StrTruthy(form.password)
       THEN Answer("Please fill in all fields.", "login.html", <<>>)
       ELSE LET found == get_user_by_email(form.email)
            IN  IF \E u \in found : verify_password(u, form.password)
                THEN /\ session' = LET u == CHOOSE u \in found : TRUE
                                   IN  [user_id |-> u.User_ID, user_name |-> u.Name,
                                        user_role |-> u.Role]
                     /\ response' = Reply("Welcome back", "home", <<"get_user_by_email">>)
                     /\ UNCHANGED <<db, deleted>>
                ELSE /\ session' = NoSession
                     /\ response' = Reply("Invalid email or password.", "login.html",
                                          <<"get_user_by_email">>)
                     /\ UNCHANGED <<db, deleted>>

\* the lookup by email may raise; the handler's except answers with the
\* login page and a notice
login(form) ==
    /\ request' = [route |-> "login", method |-> "POST", form |-> form]
    /\ IF ~StrTruthy(form.email) \/ ~StrTruthy(form.password)
       THEN Answer("Please fill in all fields.", "login.html", <<>>)
       ELSE \/ Answer(LoginFailedNotice, "login.html", <<"get_user_by_email">>)
            \/ LET found == get_user_by_email(form.email)
               IN  IF \E u \in found : verify_password(u, form.password)
                   THEN /\ session' = LET u == CHOOSE u \in found : TRUE
                                      IN  [user_id |-> u.User_ID, user_name |-> u.Name,
                                           user_role |-> u.Role]
                        /\ response' = Reply("Welcome back", "home",
                                             <<"get_user_by_email">>)
                        /\ UNCHANGED <<db, deleted>>
                   ELSE Answer("Invalid email or password.", "login.html",
                               <<"get_user_by_email">>)

logout_keeps_role ==
    /\ request' = [route |-> "logout", method |-> "GET", form |-> [none |-> MISSING]]
    /\ session' = [session EXCEPT !.user_id = NULL]
    /\ response' = Reply("You have been logged out.", "home", <<>>)
    /\ UNCHANGED <<db, deleted>>

logout ==
    /\ request' = [route |-> "logout", method |-> "GET", form |-> [none |-> MISSING]]
    /\ session' = NoSession
    /\ response' = Reply("You have been logged out.", "home", <<>>)
    /\ UNCHANGED <<db, deleted>>

----------------------------------------------------------------------------
(* app.py: add_review, edit_review, delete_review *)

add_review_post_both_targets(form) ==
    LET score == ParseFloat(form.score)
        title == form.title
        content == form.content
        movie_id == IF StrTruthy(form.movie_id) THEN ParseInt(form.movie_id) ELSE NULL
        show_id == IF StrTruthy(form.show_id) THEN ParseInt(form.show_id) ELSE NULL
    IN  IF ~IntTruthy(movie_id) /\ ~IntTruthy(show_id)
        THEN Answer("Please select a movie or show to review.", "referrer", <<>>)
        ELSE IF ~(FloatTruthy(score) /\ StrTruthy(title))
        THEN Answer("Please fill in all required fields.", "referrer", <<>>)
        ELSE IF FloatLess(score, 0) \/ FloatGreater(score, 100)
        THEN Answer("Score must be between 0 and 10.", "referrer", <<>>)
        ELSE LET r == create_review(session.user_id, score, title, content,
                                    IF IntTruthy(movie_id) THEN movie_id ELSE NULL,
                                    IF IntTruthy(show_id) THEN show_id ELSE NULL)
             IN  IF r.raised
                 THEN Answer("Failed to add review. You may have already reviewed this content.",
                             "referrer", <<"create_review">>)
                 ELSE /\ Reviews' = r.Reviews
                      /\ next_id' = r.next_id
                      /\ response' = Reply("Review added successfully!",
                                           IF IntTruthy(movie_id) THEN "movie_detail"
                                           ELSE "show_detail",
                                           <<"create_review">>)
                      /\ UNCHANGED <<User, Movie, TV_Show, Movie_Genre, Friends,
                                     User_Preferences, session, deleted>>

add_review_post(form) ==
    LET score == ParseFloat(form.score)
        title == form.title
        content == form.content
        movie_id == IF StrTruthy(form.movie_id) THEN ParseInt(form.movie_id) ELSE NULL
        show_id == IF StrTruthy(form.show_id) THEN ParseInt(form.show_id) ELSE NULL
    IN  IF IntTruthy(movie_id) /\ IntTruthy(show_id)
        THEN Answer("Please review either a movie or a show, not both.", "referrer", <<>>)
        ELSE IF ~IntTruthy(movie_id) /\ ~IntTruthy(show_id)
        THEN Answer("Please select a movie or show to review.", "referrer", <<>>)
        ELSE IF ~(FloatTruthy(score) /\ StrTruthy(title))
        THEN Answer("Please fill in all required fields.", "referrer", <<>>)
        ELSE IF FloatLess(score, 0) \/ FloatGreater(score, 100)
        THEN Answer("Score must be between 0 and 10.", "referrer", <<>>)
        ELSE LET r == create_review(session.user_id, score, title, content,
                                    IF IntTruthy(movie_id) THEN movie_id ELSE NULL,
                                    IF IntTruthy(show_id) THEN show_id ELSE NULL)
             IN  IF r.raised
                 THEN Answer("Failed to add review. You may have already reviewed this content.",
                             "referrer", <<"create_review">>)
                 ELSE /\ Reviews' = r.Reviews
                      /\ next_id' = r.next_id
                      /\ response' = Reply("Review added successfully!",
                                           IF IntTruthy(movie_id) THEN "movie_detail"
                                           ELSE "show_detail",
                                           <<"create_review">>)
                      /\ UNCHANGED <<User, Movie, TV_Show, Movie_Genre, Friends,
                                     User_Preferences, session, deleted>>

add_review(form) ==
    /\ next_id.Reviews <= MaxReviewId
    /\ request' = [route |-> "add_review", method |-> "POST", form |-> form]
    /\ login_required(add_review_post(form))

edit_review_body(method, form) ==
    LET review_id == form.review_id
        review == get_review_by_id(review_id)
        score == ParseFloat(form.score)
        title == form.title
        content == form.content
    IN  IF review = {}
        THEN Answer("Review not found.", "profile", <<"get_review_by_id">>)
        ELSE IF \A r \in review : r.User_ID # session.user_id
        THEN Answer("You can only edit your own reviews.", "profile", <<"get_review_by_id">>)
        ELSE IF method # "POST"
        THEN Answer("", "edit_review.html",
                    <<"get_review_by_id",
                      IF \E r \in review : IntTruthy(r.Movie_ID)
                      THEN "get_movie_by_id" ELSE "get_show_by_id">>)
        ELSE IF ~(FloatTruthy(score) /\ StrTruthy(title))
        THEN Answer("Please fill in all required fields.", "edit_review",
                    <<"get_review_by_id">>)
        ELSE IF FloatLess(score, 0) \/ FloatGreater(score, 100)
        THEN Answer("Score must be between 0 and 10.", "edit_review", <<"get_review_by_id">>)
        ELSE LET r == update_review(review_id, score, title, content)
             IN  IF r.raised
                 THEN Answer("Error updating review. Please try again.", "edit_review",
                             <<"get_review_by_id", "update_review">>)
                 ELSE /\ Reviews' = r.Reviews
                      /\ response' = Reply("Review updated successfully!", "profile",
                                           <<"get_review_by_id", "update_review">>)
                      /\ UNCHANGED <<User, Movie, TV_Show, Movie_Genre, Friends,
                                     User_Preferences, next_id, session, deleted>>

edit_review(method, form) ==
    /\ request' = [route |-> "edit_review", method |-> method, form |-> form]
    /\ login_required(edit_review_body(method, form))

delete_review_any_owner(review_id) ==
    LET review == get_review_by_id(review_id)
    IN  IF review = {}
        THEN Answer("Review not found.", "profile", <<"get_review_by_id">>)
        ELSE /\ Reviews' = delete_review_row(review_id)
             /\ response' = Reply("Review deleted successfully!", "profile",
                                  <<"get_review_by_id", "delete_review">>)
             /\ UNCHANGED <<User, Movie, TV_Show, Movie_Genre, Friends,
                            User_Preferences, next_id, session, deleted>>

delete_review_body(review_id) ==
    LET review == get_review_by_id(review_id)
    IN  IF review = {}
        THEN Answer("Review not found.", "profile", <<"get_review_by_id">>)
        ELSE IF \A r \in review : r.User_ID # session.user_id
        THEN Answer("You can only delete your own reviews.", "profile",
                    <<"get_review_by_id">>)
        ELSE /\ Reviews' = delete_review_row(review_id)
             /\ response' = Reply("Review deleted successfully!", "profile",
                                  <<"get_review_by_id", "delete_review">>)
             /\ UNCHANGED <<User, Movie, TV_Show, Movie_Genre, Friends,
                            User_Preferences, next_id, session, deleted>>

delete_review(form) ==
    /\ request' = [route |-> "delete_review", method |-> "POST", form |-> form]
    /\ login_required(delete_review_body(form.review_id))

----------------------------------------------------------------------------
(* models.py: class Friendship; app.py: add_friend, remove_friend *)

sp_add_friendship_one_way(user1_id, user2_id) ==
    IF \/ \E f \in Friends : f.User_ID1 = user1_id /\ f.User_ID2 = user2_id
       \/ get_user_by_id(user1_id) = {}
       \/ get_user_by_id(user2_id) = {}
    THEN [raised |-> TRUE, Friends |-> Friends]
    ELSE [raised |-> FALSE,
          Friends |-> Friends \cup {[User_ID1 |-> user1_id, User_ID2 |-> user2_id]}]

\* CALL sp_add_friendship(user1, user2): fails when the pair is stored in
\* either orientation or a user does not exist; stores the pair as given
sp_add_friendship(user1_id, user2_id) ==
    IF \/ \E f \in Friends : \/ (f.User_ID1 = user1_id /\ f.User_ID2 = user2_id)
                             \/ (f.User_ID1 = user2_id /\ f.User_ID2 = user1_id)
       \/ get_user_by_id(user1_id) = {}
       \/ get_user_by_id(user2_id) = {}
    THEN [raised |-> TRUE, Friends |-> Friends]
    ELSE [raised |-> FALSE,
          Friends |-> Friends \cup {[User_ID1 |-> user1_id, User_ID2 |-> user2_id]}]

add_friendship(user1_id, user2_id) == sp_add_friendship(user1_id, user2_id)

remove_friendship_one_way(user1_id, user2_id) ==
    LET gone == {f \in Friends : f.User_ID1 = user1_id /\ f.User_ID2 = user2_id}
    IN  [ret |-> Cardinality(gone) > 0, Friends |-> Friends \ gone]

\* DELETE FROM Friends WHERE (User_ID1 = a AND User_ID2 = b)
\*                        OR (User_ID1 = b AND User_ID2 = a); rowcount > 0
remove_friendship(user1_id, user2_id) ==
    LET gone == {f \in Friends : \/ (f.User_ID1 = user1_id /\ f.User_ID2 = user2_id)
                                 \/ (f.User_ID1 = user2_id /\ f.User_ID2 = user1_id)}
    IN  [ret |-> Cardinality(gone) > 0, Friends |-> Friends \ gone]

are_friends_one_way(user1_id, user2_id) ==
    Cardinality({f \in Friends : f.User_ID1 = user1_id /\ f.User_ID2 = user2_id}) > 0

\* SELECT COUNT(*) FROM Friends WHERE (User_ID1 = a AND User_ID2 = b)
\*                                 OR (User_ID1 = b AND User_ID2 = a); > 0
are_friends(user1_id, user2_id) ==
    Cardinality({f \in Friends : \/ (f.User_ID1 = user1_id /\ f.User_ID2 = user2_id)
                                 \/ (f.User_ID1 = user2_id /\ f.User_ID2 = user1_id)}) > 0

add_friend_body(form) ==
    LET friend_id == ParseInt(form.friend_id)
    IN  IF ~IntTruthy(friend_id)
        THEN Answer("Please select a user to add as friend.", "friends", <<>>)
        ELSE LET r == add_friendship(session.user_id, friend_id)
             IN  IF r.raised
                 THEN Answer("Failed to add friend. You may already be friends.",
                             "friends", <<"add_friendship">>)
                 ELSE /\ Friends' = r.Friends
                      /\ response' = Reply("Friend added successfully!", "friends",
                                           <<"add_friendship">>)
                      /\ UNCHANGED <<User, Movie, TV_Show, Movie_Genre, Reviews,
                                     User_Preferences, next_id, session, deleted>>

add_friend(form) ==
    /\ request' = [route |-> "add_friend", method |-> "POST", form |-> form]
    /\ login_required(add_friend_body(form))

remove_friend_body(form) ==
    LET friend_id == ParseInt(form.friend_id)
    IN  IF ~IntTruthy(friend_id)
        THEN Answer("Please select a friend to remove.", "friends", <<>>)
        ELSE /\ Friends' = remove_friendship(session.user_id, friend_id).Friends
             /\ response' = Reply("Friend removed successfully!", "friends",
                                  <<"remove_friendship">>)
             /\ UNCHANGED <<User, Movie, TV_Show, Movie_Genre, Reviews,
                            User_Preferences, next_id, session, deleted>>

remove_friend(form) ==
    /\ request' = [route |-> "remove_friend", method |-> "POST", form |-> form]
    /\ login_required(remove_friend_body(form))

----------------------------------------------------------------------------
(* models.py: User.create_user; app.py: register *)

Roles == {"normal_user", "verified_user", "admin"}

\* CALL sp_add_user(...): Email is unique, Role is one of the three roles;
\* returns the new row's id
sp_add_user(name, age, role, email, password_hash, gender, entity_type, entity_id) ==
    IF (\E u \in User : u.Email = email) \/ role \notin Roles
    THEN [raised |-> TRUE, new_user_id |-> NULL, User |-> User, next_id |-> next_id]
    ELSE [raised |-> FALSE, new_user_id |-> next_id.User,
          User |-> User \cup
              {[User_ID |-> next_id.User, Name |-> name, Email |-> email, Role |-> role,
                PasswordHash |-> password_hash,
                verified_entity_type |-> entity_type, verified_entity_id |-> entity_id]},
          next_id |-> [next_id EXCEPT !.User = @ + 1]]

create_user(name, email, password, role, age, gender, entity_type, entity_id) ==
    sp_add_user(name, age, role, email, generate_password_hash(password), gender,
                entity_type, entity_id)


register_post(form) ==
    LET name == form.name
        email == form.email
        password == form.password
        confirm_password == form.confirm_password
        age == ParseInt(form.age)
        gender == form.gender
        role == IF form.role = MISSING THEN "normal_user" ELSE form.role
        verified_entity_type == IF form.verified_entity_type = ""
                                THEN MISSING ELSE form.verified_entity_type
        verified_entity_id == ParseInt(form.verified_entity_id)
        form_calls == <<"get_all_companies", "get_all_celebrities">>
    IN  IF ~(/\ StrTruthy(name) /\ StrTruthy(email)
             /\ StrTruthy(password) /\ StrTruthy(confirm_password))
        THEN Answer("Please fill in all required fields.", "register.html", <<>>)
        ELSE IF password # confirm_password
        THEN Answer("Passwords do not match.", "register.html", <<>>)
        ELSE IF IntTruthy(age) /\ (age < 13 \/ age > 120)
        THEN Answer("Age must be between 13 and 120.", "register.html", <<>>)
        ELSE IF get_user_by_email(email) # {}
        THEN Answer("Email already registered.", "register.html", <<"get_user_by_email">>)
        ELSE LET r == create_user(name, email, password, role, age, gender,
                                  verified_entity_type, verified_entity_id)
             IN  IF r.raised
                 THEN Answer("Registration failed: error", "register.html",
                             <<"get_user_by_email", "create_user">> \o form_calls)
                 ELSE IF ~IntTruthy(r.new_user_id)
                 THEN Answer("Registration failed. Please try again.", "register.html",
                             <<"get_user_by_email", "create_user">> \o form_calls)
                 ELSE /\ User' = r.User
                      /\ next_id' = r.next_id
                      /\ response' = Reply("Registration successful! Please log in.",
                                           "login", <<"get_user_by_email", "create_user">>)
                      /\ UNCHANGED <<Movie, TV_Show, Movie_Genre, Reviews, Friends,
                                     User_Preferences, session, deleted>>

register(form) ==
    /\ next_id.User <= MaxUserId
    /\ request' = [route |-> "register", method |-> "POST", form |-> form]
    /\ register_post(form)

----------------------------------------------------------------------------
(* Text columns: ORDER BY and LIKE *)

CharRank(c) == CASE c = "a" -> 1 [] c = "b" -> 2 [] OTHER -> 0

\* s sorts strictly before t
RECURSIVE TextLess(_, _)
TextLess(s, t) ==
    IF t = <<>> THEN FALSE
    ELSE IF s = <<>> THEN TRUE
    ELSE IF CharRank(Head(s)) # CharRank(Head(t))
         THEN CharRank(Head(s)) < CharRank(Head(t))
         ELSE TextLess(Tail(s), Tail(t))

\* text LIKE pattern: % matches any run of characters, _ any one character
RECURSIVE Like(_, _)
Like(text, pattern) ==
    IF pattern = <<>> THEN text = <<>>
    ELSE IF Head(pattern) = "%"
         THEN Like(text, Tail(pattern)) \/ (text # <<>> /\ Like(Tail(text), pattern))
    ELSE IF text = <<>> THEN FALSE
    ELSE (Head(pattern) = "_" \/ Head(pattern) = Head(text))
         /\ Like(Tail(text), Tail(pattern))

\* the result sets a statement may return for rows S under ORDER BY, given
\* the pairs <<x, y>> with x sorting strictly before y: every arrangement of
\* S in which no row comes after a row it sorts before
RECURSIVE Ordered(_, _)
Ordered(S, before) ==
    IF S = {} THEN {<<>>}
    ELSE UNION {{<<x>> \o rest : rest \in Ordered(S \ {x}, before)} :
                x \in {x \in S : \A y \in S : <<y, x>> \notin before}}

----------------------------------------------------------------------------
(* Aggregates *)

RECURSIVE SumScores(_)
SumScores(rs) ==
    IF rs = {} THEN 0
    ELSE LET r == CHOOSE x \in rs : TRUE IN r.Score + SumScores(rs \ {r})

\* ROUND(AVG(Score), 2) over the rows rs, in hundredths; NULL over no rows
RoundAvg(rs) ==
    IF rs = {} THEN NULL
    ELSE (2 * 10 * SumScores(rs) + Cardinality(rs)) \div (2 * Cardinality(rs))

----------------------------------------------------------------------------
(* models.py: class Movie *)

MovieRow(m, rs) ==
    [Movie_ID |-> m.Movie_ID, Title |-> m.Title,
     review_count |-> Cardinality(rs), avg_rating |-> RoundAvg(rs)]

\* ORDER BY m.Title
ByTitle(S) == {p \in S \X S : TextLess(p[1].Title, p[2].Title)}

\* SELECT m.*, COUNT(r.Review_ID), ROUND(AVG(r.Score), 2) FROM Movie m
\* LEFT JOIN Reviews r ON m.Movie_ID = r.Movie_ID GROUP BY m.Movie_ID ORDER BY m.Title
get_all_movies ==
    LET rows == {MovieRow(m, {r \in Reviews : r.Movie_ID = m.Movie_ID}) : m \in Movie}
    IN  Ordered(rows, ByTitle(rows))

\* the same with JOIN Movie_Genre mg ... WHERE mg.Genre_ID = %s when genre_id
\* is true, and m.Title LIKE '%q%' when search_query is true
get_movies_filtered(genre_id, search_query) ==
    LET kept == {m \in Movie :
                    /\ IntTruthy(genre_id)
                          => \E mg \in Movie_Genre : /\ mg.Movie_ID = m.Movie_ID
                                                     /\ mg.Genre_ID = genre_id
                    /\ search_query # <<>>
                          => Like(m.Title, <<"%">> \o search_query \o <<"%">>)}
        rows == {MovieRow(m, {r \in Reviews : r.Movie_ID = m.Movie_ID}) : m \in kept}
    IN  Ordered(rows, ByTitle(rows))

\* what ON DELETE does to the rows that reference a deleted movie
CascadeDeleteMovie(movie_id) ==
    [Reviews |-> {r \in Reviews : r.Movie_ID # movie_id},
     Movie_Genre |-> {mg \in Movie_Genre : mg.Movie_ID # movie_id}]

delete_movie_reviews_only(movie_id) ==
    [raised |-> FALSE, ret |-> TRUE, Movie |-> Movie,
     Reviews |-> CascadeDeleteMovie(movie_id).Reviews, Movie_Genre |-> Movie_Genre]

\* DELETE FROM Movie WHERE Movie_ID = %s; return result is not None
delete_movie(movie_id) ==
    [raised |-> FALSE, ret |-> TRUE,
     Movie |-> {m \in Movie : m.Movie_ID # movie_id},
     Reviews |-> CascadeDeleteMovie(movie_id).Reviews,
     Movie_Genre |-> CascadeDeleteMovie(movie_id).Movie_Genre]

\* CALL sp_create_movie_with_details(...): the movie and its genre rows
sp_create_movie_with_details(title, year, genre_ids) ==
    [raised |-> FALSE, Movie_ID |-> next_id.Movie,
     Movie |-> Movie \cup {[Movie_ID |-> next_id.Movie, Title |-> title]},
     Movie_Genre |-> Movie_Genre \cup
         {[Movie_ID |-> next_id.Movie, Genre_ID |-> g] : g \in genre_ids},
     next_id |-> [next_id EXCEPT !.Movie = @ + 1]]

create_movie_with_details(title, year, genre_ids) ==
    sp_create_movie_with_details(title, year, genre_ids)

----------------------------------------------------------------------------
(* app.py: admin_required and the catalog routes *)

LookupErrorNotice == "Error checking admin access: error"

admin_required_cached_role(body) ==
    IF ~IntTruthy(session.user_id)
    THEN Answer("Please log in to access this page.", "login", <<>>)
    ELSE IF session.user_role # "admin"
    THEN Answer("Access denied. Admin privileges required.", "home", <<>>)
    ELSE body

\* app.py admin_required: not session.get('user_id'); then the stored row is
\* looked up; the lookup may raise, which the decorator's except turns into a
\* redirect to home
admin_required(body) ==
    IF ~IntTruthy(session.user_id)
    THEN Answer("Please log in to access this page.", "login", <<>>)
    ELSE \/ Answer(LookupErrorNotice, "home", <<"get_user_by_id">>)
         \/ LET user == get_user_by_id(session.user_id)
            IN  IF user = {}
                THEN Answer("User not found.", "login", <<"get_user_by_id">>)
                ELSE IF \E u \in user : u.Role # "admin"
                THEN Answer("Access denied. Admin privileges required.", "home",
                            <<"get_user_by_id">>)
                ELSE body

\* GET /movies?genre=&q=
movies(form) ==
    LET genre_id == ParseInt(form.genre)
        q == form.q
    IN  /\ request' = [route |-> "movies", method |-> "GET", form |-> form]
        /\ \/ \E rows \in (IF IntTruthy(genre_id) \/ q # <<>>
                           THEN get_movies_filtered(genre_id, q) ELSE get_all_movies) :
                  response' = ReplyData("", "movies.html",
                                        <<IF IntTruthy(genre_id) \/ q # <<>>
                                          THEN "get_movies_filtered" ELSE "get_all_movies",
                                          "get_all_genres">>, rows)
           \* a query raised: except branch, the page with empty lists
           \/ response' = ReplyData("Error loading movies. Please try again.",
                                    "movies.html", <<>>, <<>>)
        /\ UNCHANGED <<db, session, deleted>>

admin_movies ==
    /\ request' = [route |-> "admin_movies", method |-> "GET", form |-> [none |-> MISSING]]
    /\ admin_required(
           /\ \E rows \in get_all_movies :
                  response' = ReplyData("", "admin_movies.html", <<"get_all_movies">>, rows)
           /\ UNCHANGED <<db, session, deleted>>)

admin_delete_movie_body(movie_id) ==
    LET r == delete_movie(movie_id)
    IN  /\ Movie' = r.Movie
        /\ Reviews' = r.Reviews
        /\ Movie_Genre' = r.Movie_Genre
        /\ response' = Reply(IF r.ret THEN "Movie deleted successfully!"
                             ELSE "Failed to delete movie.",
                             "admin_movies", <<"delete_movie">>)
        /\ deleted' = IF /\ r.ret
                         /\ \E m \in Movie : m.Movie_ID = movie_id
                         /\ \E x \in Reviews : x.Movie_ID = movie_id
                      THEN deleted \cup {movie_id} ELSE deleted
        /\ UNCHANGED <<User, TV_Show, Friends, User_Preferences, next_id, session>>

admin_delete_movie(form) ==
    /\ request' = [route |-> "admin_delete_movie", method |-> "POST", form |-> form]
    /\ admin_required(admin_delete_movie_body(form.movie_id))

admin_add_movie_post(form) ==
    LET title == form.title
        year == ParseInt(form.year)
        form_calls == <<"get_all_genres", "get_all_celebrities", "get_all_companies">>
    IN  IF ~(title # <<>> /\ IntTruthy(year))
        THEN Answer("Title and year are required.", "admin_add_movie.html", form_calls)
        ELSE IF year < 1888 \/ year > 2030
        THEN Answer("Year must be between 1888 and 2030.", "admin_add_movie.html", form_calls)
        ELSE LET r == create_movie_with_details(title, year, form.genres)
             IN  IF r.raised
                 THEN Answer("Error adding movie: error", "admin_add_movie.html",
                             <<"create_movie_with_details">> \o form_calls)
                 ELSE /\ Movie' = r.Movie
                      /\ Movie_Genre' = r.Movie_Genre
                      /\ next_id' = r.next_id
                      /\ response' = IF IntTruthy(r.Movie_ID)
                                     THEN Reply("Movie added successfully!", "admin_movies",
                                                <<"create_movie_with_details">>)
                                     ELSE Reply("Failed to add movie.", "admin_add_movie.html",
                                                <<"create_movie_with_details">> \o form_calls)
                      /\ UNCHANGED <<User, TV_Show, Reviews, Friends, User_Preferences,
                                     session, deleted>>

admin_add_movie(form) ==
    /\ next_id.Movie <= MaxMovieId
    /\ request' = [route |-> "admin_add_movie", method |-> "POST", form |-> form]
    /\ admin_required(admin_add_movie_post(form))

----------------------------------------------------------------------------
(* models.py: Genre.populate_user_preferences; app.py: admin_populate_preferences *)

\* the weight of genre g for user u that the review history gives: the mean
\* score, in hundredths, of u's reviews of the movies that carry g
HistoryWeights ==
    {[User_ID |-> u, Genre_ID |-> g,
      Preference_Score |-> RoundAvg({r \in Reviews : /\ r.User_ID = u
                                                    /\ <<r.Movie_ID, g>> \in
                                                         {<<x.Movie_ID, x.Genre_ID>> :
                                                             x \in Movie_Genre}})] :
        <<u, g>> \in {<<r.User_ID, mg.Genre_ID>> :
                         <<r, mg>> \in {p \in Reviews \X Movie_Genre :
                                           p[1].Movie_ID = p[2].Movie_ID}}}

sp_populate_accumulates ==
    [raised |-> FALSE,
     User_Preferences |->
         {[w EXCEPT !.Preference_Score =
               @ + SumScores({[Score |-> old.Preference_Score, id |-> old] :
                                 old \in {o \in User_Preferences :
                                             /\ o.User_ID = w.User_ID
                                             /\ o.Genre_ID = w.Genre_ID}})] :
             w \in HistoryWeights}]

\* CALL sp_populate_user_preferences(): rebuilds every weight from the whole
\* review history
sp_populate_user_preferences ==
    [raised |-> FALSE, User_Preferences |-> HistoryWeights]

populate_user_preferences == sp_populate_user_preferences

admin_populate_preferences_body ==
    LET r == populate_user_preferences
    IN  IF r.raised
        THEN Answer("Error populating preferences. Please try again.", "admin_dashboard",
                    <<"populate_user_preferences">>)
        ELSE /\ User_Preferences' = r.User_Preferences
             /\ response' = Reply("User preferences populated successfully!",
                                  "admin_dashboard", <<"populate_user_preferences">>)
             /\ UNCHANGED <<User, Movie, TV_Show, Movie_Genre, Reviews, Friends,
                            next_id, session, deleted>>

admin_populate_preferences ==
    /\ request' = [route |-> "admin_populate_preferences", method |-> "POST",
                   form |-> [none |-> MISSING]]
    /\ admin_required(admin_populate_preferences_body)

----------------------------------------------------------------------------
(* models.py: class Recommendation; app.py: recommendations *)

LikeThreshold == 70

\* LIMIT %s
Limit(rows, limit) == SubSeq(rows, 1, Min(limit, Len(rows)))

MaxOf(S) == CHOOSE x \in S : \A y \in S : y <= x

ReviewedShowIds(user_id) ==
    {r.Show_ID : r \in {x \in Reviews : x.User_ID = user_id /\ x.Show_ID # NULL}}

\* SELECT Movie_ID FROM Reviews WHERE User_ID = %s AND Movie_ID IS NOT NULL
ReviewedMovieIds(user_id) ==
    {r.Movie_ID : r \in {x \in Reviews : x.User_ID = user_id /\ x.Movie_ID # NULL}}

\* LEFT JOIN Reviews r ON m.Movie_ID = r.Movie_ID
MovieReviews(m) == {r \in Reviews : r.Movie_ID = m.Movie_ID}

\* LEFT JOIN User_Preferences up ON up.Genre_ID IN (SELECT mg.Genre_ID FROM
\* Movie_Genre mg WHERE mg.Movie_ID = m.Movie_ID) AND up.User_ID = %s
MoviePreferences(m, user_id) ==
    {up \in User_Preferences :
        /\ up.User_ID = user_id
        /\ \E mg \in Movie_Genre : /\ mg.Movie_ID = m.Movie_ID
                                   /\ mg.Genre_ID = up.Genre_ID}

\* a LEFT JOIN keeps the left row once when nothing matches it
Fanout(S) == IF S = {} THEN 1 ELSE Cardinality(S)

\* the group of movie m: every review of m is joined with every matching
\* preference row, so the aggregates over r see each review Fanout times.
\* score_sum and review_count together carry the unrounded AVG(r.Score).
PreferenceRow(m, user_id) ==
    LET rs  == MovieReviews(m)
        ups == MoviePreferences(m, user_id)
    IN  [Movie_ID |-> m.Movie_ID, Title |-> m.Title,
         avg_rating |-> RoundAvg(rs),
         score_sum |-> SumScores(rs) * Fanout(ups),
         review_count |-> Cardinality(rs) * Fanout(ups),
         max_preference_score |->
             IF ups = {} THEN 0 ELSE MaxOf({up.Preference_Score : up \in ups})]

\* AVG(r.Score) of x above that of y; NULL sorts below every number
AvgGreater(x, y) ==
    /\ x.review_count > 0
    /\ \/ y.review_count = 0
       \/ x.score_sum * y.review_count > y.score_sum * x.review_count

AvgEqual(x, y) == ~AvgGreater(x, y) /\ ~AvgGreater(y, x)

RatingFirstOrder(S) ==
    {p \in S \X S :
        \/ AvgGreater(p[1], p[2])
        \/ /\ AvgEqual(p[1], p[2])
           /\ p[1].max_preference_score > p[2].max_preference_score}

\* ORDER BY max_preference_score DESC, AVG(r.Score) DESC, COUNT(r.Review_ID) DESC
PreferenceOrder(S) ==
    {p \in S \X S :
        \/ p[1].max_preference_score > p[2].max_preference_score
        \/ /\ p[1].max_preference_score = p[2].max_preference_score
           /\ \/ AvgGreater(p[1], p[2])
              \/ /\ AvgEqual(p[1], p[2])
                 /\ p[1].review_count > p[2].review_count}

get_movie_recommendations_inner_join(user_id, limit) ==
    LET S == {PreferenceRow(m, user_id) :
                 m \in {x \in Movie : /\ x.Movie_ID \notin ReviewedMovieIds(user_id)
                                      /\ MovieReviews(x) # {}}}
    IN  {Limit(rows, limit) : rows \in Ordered(S, PreferenceOrder(S))}

\* every result the query may return; rows that tie come in either order
get_movie_recommendations(user_id, limit) ==
    LET S == {PreferenceRow(m, user_id) :
                 m \in {x \in Movie : x.Movie_ID \notin ReviewedMovieIds(user_id)}}
    IN  {Limit(rows, limit) : rows \in Ordered(S, PreferenceOrder(S))}

\* CASE WHEN f.User_ID1 = %s THEN f.User_ID2 WHEN f.User_ID2 = %s THEN f.User_ID1 END
FriendOf(f, user_id) ==
    IF f.User_ID1 = user_id THEN f.User_ID2
    ELSE IF f.User_ID2 = user_id THEN f.User_ID1
    ELSE NULL

FriendJoinAnyScore(m, user_id) ==
    {p \in Reviews \X Friends :
        /\ p[1].Movie_ID = m.Movie_ID
        /\ \/ (p[2].User_ID1 = user_id /\ p[2].User_ID2 = p[1].User_ID)
           \/ (p[2].User_ID2 = user_id /\ p[2].User_ID1 = p[1].User_ID)}

\* JOIN Reviews r ON m.Movie_ID = r.Movie_ID
\* JOIN Friends f ON (f.User_ID1 = %s AND f.User_ID2 = r.User_ID)
\*                OR (f.User_ID2 = %s AND f.User_ID1 = r.User_ID)
\* ... AND r.Score >= 7.0
FriendJoin(m, user_id) ==
    {p \in Reviews \X Friends :
        /\ p[1].Movie_ID = m.Movie_ID
        /\ \/ (p[2].User_ID1 = user_id /\ p[2].User_ID2 = p[1].User_ID)
           \/ (p[2].User_ID2 = user_id /\ p[2].User_ID1 = p[1].User_ID)
        /\ p[1].Score >= LikeThreshold}

\* the group of movie m over the joined (review, friendship) rows
FriendRow(m, user_id) ==
    LET j == FriendJoin(m, user_id)
    IN  [Movie_ID |-> m.Movie_ID, Title |-> m.Title,
         avg_rating |-> RoundAvg({[Score |-> p[1].Score, row |-> p] : p \in j}),
         review_count |-> Cardinality(j),
         friend_likes |-> Cardinality({FriendOf(p[2], user_id) : p \in j} \ {NULL}),
         content_type |-> "movie"]

\* ORDER BY friend_likes DESC, avg_rating DESC
FriendOrder(S) ==
    {p \in S \X S :
        \/ p[1].friend_likes > p[2].friend_likes
        \/ /\ p[1].friend_likes = p[2].friend_likes
           /\ p[1].avg_rating > p[2].avg_rating}

get_friend_recommendations(user_id, limit) ==
    LET S == {FriendRow(m, user_id) :
                 m \in {x \in Movie : /\ x.Movie_ID \notin ReviewedMovieIds(user_id)
                                      /\ FriendJoin(x, user_id) # {}}}
    IN  {Limit(rows, limit) : rows \in Ordered(S, FriendOrder(S))}

\* a caller applies Recommendation.get_movie_recommendations(user_id, limit)
call_get_movie_recommendations(user_id, limit) ==
    /\ request' = [route |-> "get_movie_recommendations", method |-> "CALL",
                   form |-> [user_id |-> user_id, limit |-> limit]]
    /\ \E rows \in get_movie_recommendations(user_id, limit) :
           response' = ReplyData("", "none", <<"get_movie_recommendations">>, rows)
    /\ UNCHANGED <<db, session, deleted>>

\* a caller applies Recommendation.get_friend_recommendations(user_id, limit)
call_get_friend_recommendations(user_id, limit) ==
    /\ request' = [route |-> "get_friend_recommendations", method |-> "CALL",
                   form |-> [user_id |-> user_id, limit |-> limit]]
    /\ \E rows \in get_friend_recommendations(user_id, limit) :
           response' = ReplyData("", "none", <<"get_friend_recommendations">>, rows)
    /\ UNCHANGED <<db, session, deleted>>

recommendations_body ==
    \E movie_recommendations \in get_movie_recommendations(session.user_id, 10) :
        \E friend_recommendations \in get_friend_recommendations(session.user_id, 10) :
            /\ response' = ReplyData("", "recommendations.html",
                                     <<"get_movie_recommendations",
                                       "get_friend_recommendations",
                                       "get_user_preferences">>,
                                     [movie_recommendations |-> movie_recommendations,
                                      friend_recommendations |-> friend_recommendations])
            /\ UNCHANGED <<db, session, deleted>>

recommendations ==
    /\ request' = [route |-> "recommendations", method |-> "GET",
                   form |-> [none |-> MISSING]]
    /\ login_required(recommendations_body)

----------------------------------------------------------------------------
(* app.py: movie_detail, show_detail; models.py: can_edit_content *)

\* SELECT m.*, ... FROM Movie m ... WHERE m.Movie_ID = %s GROUP BY m.Movie_ID
get_movie_by_id(movie_id) == {m \in Movie : m.Movie_ID = movie_id}

\* SELECT s.*, ... FROM TV_Show s ... WHERE s.Show_ID = %s GROUP BY s.Show_ID
get_show_by_id(show_id) == {x \in TV_Show : x.Show_ID = show_id}

\* can_edit = session.get('user_role') == 'admin'
movie_detail(form) ==
    /\ request' = [route |-> "movie_detail", method |-> "GET", form |-> form]
    /\ IF get_movie_by_id(form.movie_id) = {}
       THEN Answer("Movie not found.", "movies", <<"get_movie_by_id">>)
       ELSE /\ response' = ReplyData("", "movie_detail.html",
                                     <<"get_movie_by_id", "get_movie_genres",
                                       "get_movie_celebrities", "get_movie_reviews">>,
                                     [can_edit |-> session.user_role = "admin"])
            /\ UNCHANGED <<db, session, deleted>>

show_detail(form) ==
    /\ request' = [route |-> "show_detail", method |-> "GET", form |-> form]
    /\ IF get_show_by_id(form.show_id) = {}
       THEN Answer("Show not found.", "shows", <<"get_show_by_id">>)
       ELSE /\ response' = ReplyData("", "show_detail.html",
                                     <<"get_show_by_id", "get_show_genres",
                                       "get_show_reviews">>,
                                     [can_edit |-> session.user_role = "admin"])
            /\ UNCHANGED <<db, session, deleted>>

can_edit_content_any_type(content_owner_type, content_owner_id) ==
    IF session.user_id = NULL THEN FALSE
    ELSE LET user == get_user_by_id(session.user_id)
         IN  IF user = {} THEN FALSE
             ELSE LET u == CHOOSE u \in user : TRUE
                  IN  IF u.Role = "admin" THEN TRUE
                      ELSE IF u.Role = "verified_user"
                      THEN IF content_owner_type \in {"company", "celebrity"}
                           THEN u.verified_entity_id = content_owner_id
                           ELSE FALSE
                      ELSE FALSE

can_edit_content(content_owner_type, content_owner_id) ==
    IF session.user_id = NULL THEN FALSE
    ELSE LET user == get_user_by_id(session.user_id)
         IN  IF user = {} THEN FALSE
             ELSE LET u == CHOOSE u \in user : TRUE
                  IN  IF u.Role = "admin" THEN TRUE
                      ELSE IF u.Role = "verified_user"
                      THEN IF /\ content_owner_type = "company"
                              /\ u.verified_entity_type = "company"
                           THEN u.verified_entity_id = content_owner_id
                           ELSE IF /\ content_owner_type = "celebrity"
                                   /\ u.verified_entity_type = "celebrity"
                           THEN u.verified_entity_id = content_owner_id
                           ELSE FALSE
                      ELSE FALSE

----------------------------------------------------------------------------
(* The User table changed from outside the application *)

NoRequest == [route |-> "none", method |-> "SQL", form |-> [none |-> MISSING]]

\* UPDATE User SET Role = role WHERE User_ID = user_id
db_update_role(user_id, role) ==
    /\ \E u \in User : /\ u.User_ID = user_id
                       /\ u.Role # role
                       /\ User' = (User \ {u}) \cup {[u EXCEPT !.Role = role]}
    /\ request' = NoRequest
    /\ response' = Reply("", "none", <<>>)
    /\ UNCHANGED <<Movie, TV_Show, Movie_Genre, Reviews, Friends, User_Preferences,
                   next_id, session, deleted>>

\* DELETE FROM User WHERE User_ID = user_id, for a user no other row refers to
db_delete_user(user_id) ==
    /\ \E u \in User : u.User_ID = user_id /\ User' = User \ {u}
    /\ \A r \in Reviews : r.User_ID # user_id
    /\ \A f \in Friends : f.User_ID1 # user_id /\ f.User_ID2 # user_id
    /\ \A up \in User_Preferences : up.User_ID # user_id
    /\ request' = NoRequest
    /\ response' = Reply("", "none", <<>>)
    /\ UNCHANGED <<Movie, TV_Show, Movie_Genre, Reviews, Friends, User_Preferences,
                   next_id, session, deleted>>

----------------------------------------------------------------------------
(* models.py: Friendship.get_user_friends, get_user_friends_filtered;
   app.py: friends *)

\* the characters of the names and emails in use
Spell(text) ==
    CASE text = "alice" -> <<"a", "l", "i", "c", "e">>
      [] text = "bob"   -> <<"b", "o", "b">>
      [] text = "root"  -> <<"r", "o", "o", "t">>
      [] text = "carol" -> <<"c", "a", "r", "o", "l">>
      [] text = "a@x"   -> <<"a", "@", "x">>
      [] text = "b@x"   -> <<"b", "@", "x">>
      [] text = "r@x"   -> <<"r", "@", "x">>
      [] text = "c@x"   -> <<"c", "@", "x">>
      [] text = "d@x"   -> <<"d", "@", "x">>
      [] OTHER          -> <<>>

\* FROM User u JOIN Friends f ON (u.User_ID = f.User_ID2 AND f.User_ID1 = %s)
\*                             OR (u.User_ID = f.User_ID1 AND f.User_ID2 = %s)
FriendRows(user_id) ==
    {[User_ID |-> p[1].User_ID, Name |-> p[1].Name, Email |-> p[1].Email,
      Role |-> p[1].Role, friendship |-> p[2]] :
        p \in {q \in User \X Friends :
                  \/ (q[1].User_ID = q[2].User_ID2 /\ q[2].User_ID1 = user_id)
                  \/ (q[1].User_ID = q[2].User_ID1 /\ q[2].User_ID2 = user_id)}}

\* ORDER BY f.Created_At DESC: the rows carry no creation time here, so every
\* arrangement of the rows is a possible result
get_user_friends(user_id) == Ordered(FriendRows(user_id), {})

\* ... WHERE 1=1 [AND (u.Name LIKE %q% OR u.Email LIKE %q%)] ORDER BY f.Created_At DESC
get_user_friends_filtered(user_id, search_query) ==
    LET like == <<"%">> \o search_query \o <<"%">>
        kept == {row \in FriendRows(user_id) :
                    search_query # <<>> =>
                        \/ Like(Spell(row.Name), like)
                        \/ Like(Spell(row.Email), like)}
    IN  Ordered(kept, {})

friends_body(form) ==
    \E rows \in get_user_friends_filtered(session.user_id, form.q) :
        /\ response' = ReplyData("", "friends.html",
                                 <<"get_user_friends_filtered", "execute_query">>, rows)
        /\ UNCHANGED <<db, session, deleted>>

\* GET /friends?q=
friends(form) ==
    /\ request' = [route |-> "friends", method |-> "GET", form |-> form]
    /\ login_required(friends_body(form))

----------------------------------------------------------------------------
(* The store and the session before the first request *)

InitUser ==
    {[User_ID |-> 1, Name |-> "alice", Email |-> "a@x", Role |-> "normal_user",
      PasswordHash |-> generate_password_hash("pa"),
      verified_entity_type |-> MISSING, verified_entity_id |-> NULL],
     [User_ID |-> 2, Name |-> "bob", Email |-> "b@x", Role |-> "normal_user",
      PasswordHash |-> generate_password_hash("pb"),
      verified_entity_type |-> MISSING, verified_entity_id |-> NULL],
     [User_ID |-> 3, Name |-> "root", Email |-> "r@x", Role |-> "admin",
      PasswordHash |-> generate_password_hash("pr"),
      verified_entity_type |-> MISSING, verified_entity_id |-> NULL]}

InitMovie ==
    {[Movie_ID |-> 1, Title |-> <<"a">>], [Movie_ID |-> 2, Title |-> <<"a", "b">>]}

InitTV_Show == {[Show_ID |-> 1, Title |-> <<"b">>]}

InitMovie_Genre ==
    {[Movie_ID |-> 1, Genre_ID |-> 1], [Movie_ID |-> 1, Genre_ID |-> 2],
     [Movie_ID |-> 2, Genre_ID |-> 2], [Movie_ID |-> 2, Genre_ID |-> 3]}

InitRequest == [route |-> "none", method |-> "GET", form |-> [none |-> MISSING]]

Init ==
    /\ User = InitUser
    /\ Movie = InitMovie
    /\ TV_Show = InitTV_Show
    /\ Movie_Genre = InitMovie_Genre
    /\ Reviews = {}
    /\ Friends = {}
    /\ User_Preferences = {}
    /\ next_id = [User |-> 4, Movie |-> 3, Reviews |-> 1]
    /\ session = NoSession
    /\ request = InitRequest
    /\ response = Reply("", "none", <<>>)
    /\ deleted = {}

----------------------------------------------------------------------------
(* Review lifecycle: the requests of one client *)

LoginForms ==
    {[email |-> "a@x", password |-> "pa"], [email |-> "b@x", password |-> "pb"],
     [email |-> "a@x", password |-> "pb"], [email |-> "", password |-> "pa"]}

ScoreTexts == {MISSING, "nan", "-1", "0", "7", "10", "11"}

\* every score and title against a movie and against a show; every way of
\* naming the target with a score inside and a score outside the range
AddReviewForms ==
    [score : ScoreTexts, title : {"", "A"}, content : {"c"},
     movie_id : {"1"}, show_id : {MISSING}]
    \cup
    [score : ScoreTexts, title : {"", "A"}, content : {"c"},
     movie_id : {MISSING}, show_id : {"1"}]
    \cup
    [score : {"7", "11"}, title : {"A"}, content : {"c"},
     movie_id : {MISSING, "", "0", "abc", "1", "2", "9"}, show_id : {MISSING, "0", "1"}]

EditReviewForms ==
    [review_id : 1..MaxReviewId, score : ScoreTexts \ {"7"}, title : {"", "B"}, content : {"c"}]

ReviewIdForms ==
    [review_id : 1..MaxReviewId, score : {MISSING}, title : {MISSING}, content : {MISSING}]

Next ==
    \/ \E form \in LoginForms : login(form)
    \/ logout
    \/ \E form \in AddReviewForms : add_review(form)
    \/ \E form \in EditReviewForms : edit_review("POST", form)
    \/ \E form \in ReviewIdForms : edit_review("GET", form)
    \/ \E form \in ReviewIdForms : delete_review(form)

Spec == Init /\ [][Next]_vars

----------------------------------------------------------------------------
(* Properties of the review lifecycle *)

\* the text a form carries for an id
IdText(n) ==
    CASE n = 1 -> "1" [] n = 2 -> "2" [] n = 3 -> "3" [] n = 4 -> "4" [] OTHER -> "?"

Called(resp, name) == \E i \in DOMAIN resp.calls : resp.calls[i] = name

AddedNotice == "Review added successfully!"
AddFailedNotice == "Failed to add review. You may have already reviewed this content."

\* the session's user already has a review of the movie or show the form names
AlreadyReviewed(form) ==
    \E r \in Reviews :
        /\ r.User_ID = session.user_id
        /\ \/ (r.Movie_ID # NULL /\ form.movie_id = IdText(r.Movie_ID))
           \/ (r.Show_ID # NULL /\ form.show_id = IdText(r.Show_ID))

OneReviewPerPair ==
    \A r1, r2 \in Reviews :
        (/\ r1.User_ID = r2.User_ID
         /\ r1.Movie_ID = r2.Movie_ID
         /\ r1.Show_ID = r2.Show_ID) => r1 = r2

\* C1: once a review by U on a content item exists, an add_review request by
\* U for that item never succeeds and leaves Reviews as it was; when it gets
\* as far as create_review the outcome is the 'Failed to add review' notice;
\* so the table never holds two reviews of one item by one user.
C1_SecondReviewFails ==
    [][/\ (/\ request'.route = "add_review"
           /\ session.user_id # NULL
           /\ AlreadyReviewed(request'.form))
          => /\ Reviews' = Reviews
             /\ response'.flash # AddedNotice
             /\ Called(response', "create_review") => response'.flash = AddFailedNotice
       /\ OneReviewPerPair']_vars

C1_Witness ==
    /\ request.route = "add_review"
    /\ response.flash = AddFailedNotice
    /\ \E r \in Reviews : /\ r.User_ID = session.user_id
                          /\ r.Movie_ID # NULL
                          /\ request.form.movie_id = IdText(r.Movie_ID)

\* the score text is a float that does not lie in [0, 10]
ScoreOutsideRange(text) ==
    LET x == ParseFloat(text)
    IN  x.tag # "none" /\ ~(x.tag = "num" /\ 0 <= x.v /\ x.v <= 100)

ScoreInRange(text) ==
    LET x == ParseFloat(text)
    IN  x.tag = "num" /\ 0 <= x.v /\ x.v <= 100

WriteCalls == {"create_review", "update_review", "delete_review"}

StoredScoresInRange == \A r \in Reviews : 0 <= r.Score /\ r.Score <= 100

\* C7: an add_review or edit_review POST whose score is outside [0,10] leaves
\* Reviews unchanged and runs no insert, update, delete or stored procedure;
\* every stored score stays within [0,10].
C7_OutOfRangeRejected ==
    [][/\ (/\ request'.route \in {"add_review", "edit_review"}
           /\ request'.method = "POST"
           /\ ScoreOutsideRange(request'.form.score))
          => /\ Reviews' = Reviews
             /\ \A i \in DOMAIN response'.calls : response'.calls[i] \notin WriteCalls
       /\ StoredScoresInRange']_vars

\* what the code does keep of C7: a numeric score outside [0,10] is turned
\* away before any write, and no stored score leaves [0,10]
C7_NumericOutOfRangeRejected ==
    [][/\ (/\ request'.route \in {"add_review", "edit_review"}
           /\ request'.method = "POST"
           /\ ScoreOutsideRange(request'.form.score)
           /\ ParseFloat(request'.form.score).tag = "num")
          => /\ Reviews' = Reviews
             /\ \A i \in DOMAIN response'.calls : response'.calls[i] \notin WriteCalls
       /\ StoredScoresInRange']_vars

\* the form names a usable id for exactly one of movie and show
ExactlyOneTarget(form) ==
    IntTruthy(ParseInt(form.movie_id)) # IntTruthy(ParseInt(form.show_id))

\* C10: an add_review POST reaches Review.create_review exactly when the
\* session is authenticated, the score lies in [0,10] (0 and 10 included),
\* the title is non-empty and exactly one target is given.
C10_CreateReachedExactlyWhenValid ==
    [][(request'.route = "add_review" /\ request'.method = "POST")
          => (Called(response', "create_review")
                <=> /\ session.user_id # NULL
                    /\ ScoreInRange(request'.form.score)
                    /\ StrTruthy(request'.form.title)
                    /\ ExactlyOneTarget(request'.form))]_vars

----------------------------------------------------------------------------
(* Friendship: the requests of one client *)

FriendLoginForms ==
    {[email |-> "a@x", password |-> "pa"], [email |-> "b@x", password |-> "pb"],
     [email |-> "r@x", password |-> "pr"], [email |-> "r@x", password |-> "pa"]}

FriendForms == [friend_id : {MISSING, "0", "abc", "1", "2", "3", "9"}]

FriendSearchTexts == {<<>>, <<"o">>, <<"_">>}

NextFriends ==
    \/ \E form \in FriendLoginForms : login(form)
    \/ logout
    \/ \E form \in FriendForms : add_friend(form)
    \/ \E form \in FriendForms : remove_friend(form)
    \/ \E form \in [q : FriendSearchTexts] : friends(form)

SpecFriends == Init /\ [][NextFriends]_vars

UserIds == {u.User_ID : u \in User}

\* C3: whatever add_friendship and remove_friendship calls built the Friends
\* table, and in whichever argument order, are_friends(A,B) and
\* are_friends(B,A) give the same answer for all users A and B.
C3_AreFriendsSymmetric ==
    \A a, b \in UserIds : are_friends(a, b) = are_friends(b, a)

\* a pair stored as (b, a), asked as (a, b), after a removal and a new addition
C3_Witness ==
    /\ \E f \in Friends : f.User_ID1 > f.User_ID2 /\ are_friends(f.User_ID2, f.User_ID1)
    /\ \E f \in Friends : f.User_ID1 < f.User_ID2
    /\ request.route = "remove_friend"
    /\ response.flash = "Friend removed successfully!"

----------------------------------------------------------------------------
(* Accounts: registration and login of one client *)

RegisterForms ==
    [name : {"", "carol"}, email : {"", "a@x", "c@x", "d@x"}, password : {"pc"},
     confirm_password : {"pc", "zz"}, age : {MISSING, "12", "30"}, gender : {MISSING},
     role : {MISSING, "admin"}, verified_entity_type : {""},
     verified_entity_id : {MISSING}]

AccountLoginForms ==
    {[email |-> "a@x", password |-> "pa"], [email |-> "c@x", password |-> "pc"],
     [email |-> "c@x", password |-> "pa"], [email |-> "zz", password |-> "pa"],
     [email |-> "a@x", password |-> ""]}

NextAccounts ==
    \/ \E form \in RegisterForms : register(form)
    \/ \E form \in AccountLoginForms : login(form)
    \/ logout

SpecAccounts == Init /\ [][NextAccounts]_vars

RegisteredNotice == "Registration successful! Please log in."

\* C6: a register request whose email is that of an existing user creates and
\* changes no User row, never reaches create_user and is not answered as a
\* success; and no register request, successful or not, touches the session.
C6_DuplicateEmailRejected ==
    [][request'.route = "register"
          => /\ session' = session
             /\ (\E u \in User : u.Email = request'.form.email)
                   => /\ User' = User
                      /\ response'.flash # RegisteredNotice
                      /\ ~Called(response', "create_user")]_vars

\* the email of a user registered earlier in the run is submitted again, by a
\* client that is logged in
C6_Witness ==
    /\ request.route = "register"
    /\ response.flash = "Email already registered."
    /\ request.form.email = "c@x"
    /\ session.user_id # NULL

----------------------------------------------------------------------------
(* Catalog: an administrator and a reviewer *)

CatalogLoginForms ==
    {[email |-> "a@x", password |-> "pa"], [email |-> "r@x", password |-> "pr"]}

CatalogReviewForms ==
    [score : {"7"}, title : {"A"}, content : {"c"},
     movie_id : {"1", "2", "3"}, show_id : {MISSING}]

MovieIdForms == [movie_id : 1..MaxMovieId]

AddMovieForms ==
    [title : {<<>>, <<"b">>}, year : {"1800", "2000"}, genres : {{1}}]

Genres == {1, 2}

SearchTexts == {<<>>, <<"a">>, <<"b">>, <<"_">>}

ListForms == [genre : {MISSING, "0", "1"}, q : {<<>>, <<"b">>}]

NextCatalog ==
    \/ \E form \in CatalogLoginForms : login(form)
    \/ \E form \in CatalogReviewForms : add_review(form)
    \/ \E form \in MovieIdForms : admin_delete_movie(form)
    \/ \E form \in AddMovieForms : admin_add_movie(form)
    \/ \E form \in ListForms : movies(form)
    \/ admin_movies

SpecCatalog == Init /\ [][NextCatalog]_vars

RowIds(rows) == {rows[i].Movie_ID : i \in DOMAIN rows}

\* no listing query returns movie m, whatever the filters
NeverListed(m) ==
    /\ \A rows \in get_all_movies : m \notin RowIds(rows)
    /\ \A g \in {NULL, 0} \cup Genres, q \in SearchTexts :
           \A rows \in get_movies_filtered(g, q) : m \notin RowIds(rows)

SessionIsAdmin ==
    \E u \in User : u.User_ID = session.user_id /\ u.Role = "admin"

----------------------------------------------------------------------------
(* Preferences: reviewers write reviews, an administrator rebuilds the weights *)

PrefLoginForms ==
    {[email |-> "a@x", password |-> "pa"], [email |-> "r@x", password |-> "pr"]}

PrefReviewForms ==
    [score : {"6.9", "10"}, title : {"A"}, content : {"c"},
     movie_id : {"1", "2"}, show_id : {MISSING, "1"}]

NextPrefs ==
    \/ \E form \in PrefLoginForms : login(form)
    \/ \E form \in PrefReviewForms : add_review(form)
    \/ \E form \in ReviewIdForms : delete_review(form)
    \/ admin_populate_preferences

SpecPrefs == Init /\ [][NextPrefs]_vars

PopulatedNotice == "User preferences populated successfully!"

\* C9: a preference rebuild that directly follows a preference rebuild, with
\* no request in between, leaves User_Preferences exactly as the first left it.
C9_PopulateIdempotent ==
    [][(/\ request.route = "admin_populate_preferences"
        /\ response.flash = PopulatedNotice
        /\ request'.route = "admin_populate_preferences"
        /\ response'.flash = PopulatedNotice)
          => User_Preferences' = User_Preferences]_vars

\* a rebuild ran over a history of two reviews and replaced older weights;
\* the administrator is still logged in, so the rebuild can run again
C9_Witness ==
    /\ request.route = "admin_populate_preferences"
    /\ response.flash = PopulatedNotice
    /\ Cardinality(Reviews) >= 2
    /\ Cardinality(User_Preferences) >= 2
    /\ SessionIsAdmin

----------------------------------------------------------------------------
(* Recommendations: the two queries over the stores that reviewing, befriending
   and preference rebuilds can leave behind *)

MaxFriendRows == 2
MaxPreferenceRows == 2

\* at most MaxRows movie reviews, one per (user, movie), scored 6.9 or 7.0
RecReviewSets ==
    {rs \in SUBSET {[Review_ID |-> 2 * (u - 1) + m, User_ID |-> u, Movie_ID |-> m,
                     Show_ID |-> NULL, Score |-> sc, Title |-> "A", Content |-> "c"] :
                        u \in {1, 2, 3}, m \in {1, 2}, sc \in {69, 70}} :
        /\ Cardinality(rs) <= MaxRows
        /\ \A a, b \in rs : a.Review_ID = b.Review_ID => a = b}

\* at most MaxFriendRows friendships, each pair stored in one orientation
RecFriendSets ==
    {fs \in SUBSET {[User_ID1 |-> a, User_ID2 |-> b] :
                       <<a, b>> \in {p \in {1, 2, 3} \X {1, 2, 3} : p[1] # p[2]}} :
        /\ Cardinality(fs) <= MaxFriendRows
        /\ \A f, g \in fs : ~(f.User_ID1 = g.User_ID2 /\ f.User_ID2 = g.User_ID1)}

\* at most MaxPreferenceRows weights of the two viewers, one per (user, genre),
\* as a rebuild over single reviews scored 6.9 or 10 leaves them
RecPreferenceSets ==
    {ps \in SUBSET {[User_ID |-> u, Genre_ID |-> g, Preference_Score |-> w] :
                       u \in {1, 2}, g \in {1, 2, 3}, w \in {690, 1000}} :
        /\ Cardinality(ps) <= MaxPreferenceRows
        /\ \A a, b \in ps : (a.User_ID = b.User_ID /\ a.Genre_ID = b.Genre_ID) => a = b}

InitRec ==
    /\ User = InitUser
    /\ Movie = InitMovie
    /\ TV_Show = InitTV_Show
    /\ Movie_Genre = InitMovie_Genre
    /\ Reviews \in RecReviewSets
    /\ \/ Friends \in RecFriendSets /\ User_Preferences = {}
       \/ Friends = {} /\ User_Preferences \in RecPreferenceSets
    /\ next_id = [User |-> 4, Movie |-> 3, Reviews |-> 7]
    /\ session = NoSession
    /\ request = InitRequest
    /\ response = Reply("", "none", <<>>)
    /\ deleted = {}

RecLoginForms ==
    {[email |-> "a@x", password |-> "pa"], [email |-> "b@x", password |-> "pb"]}

NextRec ==
    \/ \E form \in RecLoginForms : login(form)
    \/ recommendations

SpecRec == InitRec /\ [][NextRec]_vars

Recommended == request.route = "recommendations" /\ response.goto = "recommendations.html"

RowsOf(rows) == {rows[i] : i \in 1..Len(rows)}

HasReviewed(u, movie_id) == \E r \in Reviews : r.User_ID = u /\ r.Movie_ID = movie_id

\* C2: whatever the store holds, neither recommendation query returns, for
\* any user and any limit, a movie that this user has reviewed; in particular
\* the recommendations page never shows the viewer a movie they reviewed.
C2_NoReviewedMovieRecommended ==
    /\ \A u \in UserIds : \A limit \in {1, 10} :
          /\ \A rows \in get_movie_recommendations(u, limit) :
                \A row \in RowsOf(rows) : ~HasReviewed(u, row.Movie_ID)
          /\ \A rows \in get_friend_recommendations(u, limit) :
                \A row \in RowsOf(rows) : ~HasReviewed(u, row.Movie_ID)
    /\ Recommended =>
          \A row \in RowsOf(response.data.movie_recommendations)
                       \cup RowsOf(response.data.friend_recommendations) :
              ~HasReviewed(session.user_id, row.Movie_ID)

\* the viewer has reviewed a movie that a friend rated 7.0, and both lists
\* still recommend another movie
C2_Witness ==
    /\ Recommended
    /\ \E m \in Movie : /\ HasReviewed(session.user_id, m.Movie_ID)
                        /\ FriendJoin(m, session.user_id) # {}
    /\ Len(response.data.movie_recommendations) > 0
    /\ Len(response.data.friend_recommendations) > 0

\* the greatest stored weight of user u over the genres of a movie; 0 if none
StoredMaxPreference(u, movie_id) ==
    LET ws == {up.Preference_Score :
                  up \in {x \in User_Preferences :
                             /\ x.User_ID = u
                             /\ \E mg \in Movie_Genre : /\ mg.Movie_ID = movie_id
                                                        /\ mg.Genre_ID = x.Genre_ID}}
    IN  IF ws = {} THEN 0 ELSE CHOOSE w \in ws : \A v \in ws : v <= w

\* C4: in every result of get_movie_recommendations each row carries the
\* user's greatest stored weight over the movie's genres, 0 when there is
\* none, and a row with a strictly higher weight is never placed after a row
\* with a lower one, whatever their average ratings and review counts.
C4_PreferenceRanksFirst ==
    /\ \A u \in UserIds : \A rows \in get_movie_recommendations(u, 10) :
          /\ \A i \in 1..Len(rows) :
                rows[i].max_preference_score = StoredMaxPreference(u, rows[i].Movie_ID)
          /\ \A i, j \in 1..Len(rows) :
                rows[i].max_preference_score > rows[j].max_preference_score => i < j
    /\ Recommended =>
          LET rows == response.data.movie_recommendations
          IN  \A i, j \in 1..Len(rows) :
                 StoredMaxPreference(session.user_id, rows[i].Movie_ID)
                    > StoredMaxPreference(session.user_id, rows[j].Movie_ID) => i < j

\* the first movie has the higher weight, the second has no stored weight
\* (score 0) but the higher average rating and the higher review count
C4_Witness ==
    /\ Recommended
    /\ LET rows == response.data.movie_recommendations
       IN  /\ Len(rows) = 2
           /\ rows[1].max_preference_score > 0
           /\ rows[2].max_preference_score = 0
           /\ \E up \in User_Preferences : up.User_ID = session.user_id
           /\ rows[2].avg_rating > rows[1].avg_rating
           /\ rows[2].review_count > rows[1].review_count

\* the friends of u, whichever way the pair is stored, who rated the movie
\* 7.0 or higher
LikingFriends(u, movie_id) ==
    {v \in UserIds :
        /\ \E f \in Friends : \/ (f.User_ID1 = u /\ f.User_ID2 = v)
                              \/ (f.User_ID1 = v /\ f.User_ID2 = u)
        /\ \E r \in Reviews : r.User_ID = v /\ r.Movie_ID = movie_id /\ r.Score >= 70}

\* C5: in every result of get_friend_recommendations the friend_likes of a
\* row is the number of distinct friends, in either orientation, who rated
\* the movie 7.0 or higher, and it is never 0: a friend's rating below 7.0
\* neither counts nor makes the movie a candidate.
C5_FriendLikesCountsDistinctFriends ==
    /\ \A u \in UserIds : \A rows \in get_friend_recommendations(u, 10) :
          \A row \in RowsOf(rows) :
             /\ row.friend_likes = Cardinality(LikingFriends(u, row.Movie_ID))
             /\ row.friend_likes >= 1
    /\ Recommended =>
          \A row \in RowsOf(response.data.friend_recommendations) :
             /\ row.friend_likes = Cardinality(LikingFriends(session.user_id, row.Movie_ID))
             /\ row.friend_likes >= 1

\* the viewer has two friends, stored in opposite orientations; one rated the
\* recommended movie 7.0 and the other rated it 6.9, so it has one like
C5_Witness ==
    /\ Recommended
    /\ \E f \in Friends : f.User_ID1 = session.user_id
    /\ \E f \in Friends : f.User_ID2 = session.user_id
    /\ \E row \in RowsOf(response.data.friend_recommendations) :
          /\ row.friend_likes = 1
          /\ \E r \in Reviews : /\ r.Movie_ID = row.Movie_ID
                                /\ r.Score = 69
                                /\ r.User_ID \in {FriendOf(f, session.user_id) : f \in Friends}

----------------------------------------------------------------------------
(* Ownership of reviews *)

NotFoundNotice == "Review not found."

OwnershipNotices ==
    {"You can only edit your own reviews.", "You can only delete your own reviews."}

TargetsReview == request'.route \in {"edit_review", "delete_review"}

\* C11: a step changes or removes a review only if it is an edit_review or
\* delete_review request of the session user who wrote it; a logged-in request
\* for another user's review leaves Reviews unchanged and answers with the
\* ownership notice, while one for an id that does not exist answers with the
\* not-found notice.
C11_OnlyAuthorChangesReview ==
    [][/\ \A r \in Reviews :
             r \notin Reviews' => /\ TargetsReview
                                  /\ request'.form.review_id = r.Review_ID
                                  /\ session.user_id = r.User_ID
                                  /\ session' = session
       /\ (TargetsReview /\ session.user_id # NULL) =>
             /\ (\E r \in Reviews : /\ r.Review_ID = request'.form.review_id
                                    /\ r.User_ID # session.user_id)
                   => /\ Reviews' = Reviews
                      /\ response'.flash \in OwnershipNotices
                      /\ response'.flash # NotFoundNotice
             /\ (\A r \in Reviews : r.Review_ID # request'.form.review_id)
                   => /\ Reviews' = Reviews
                      /\ response'.flash = NotFoundNotice]_vars

\* bob asked to delete the review alice wrote and was told it is not his
C11_Witness ==
    /\ request.route = "delete_review"
    /\ response.flash = "You can only delete your own reviews."
    /\ \E r \in Reviews : /\ r.Review_ID = request.form.review_id
                          /\ r.User_ID # session.user_id
                          /\ session.user_id # NULL

----------------------------------------------------------------------------
(* Gates: sessions that outlive changes of the stored role *)

GateLoginForms ==
    {[email |-> "a@x", password |-> "pa"], [email |-> "r@x", password |-> "pr"],
     [email |-> "c@x", password |-> "pc"], [email |-> "a@x", password |-> "zz"],
     [email |-> "r@x", password |-> ""]}

GateRegisterForms ==
    [name : {"carol"}, email : {"c@x"}, password : {"pc"}, confirm_password : {"pc"},
     age : {MISSING}, gender : {MISSING}, role : {"verified_user"},
     verified_entity_type : {"company", "celebrity"}, verified_entity_id : {"1", "2"}]

NextGates ==
    \/ \E form \in GateLoginForms : login(form)
    \/ logout
    \/ \E form \in GateRegisterForms : register(form)
    \/ \E user_id \in {1, 3}, role \in Roles : db_update_role(user_id, role)
    \/ \E user_id \in {1, 3} : db_delete_user(user_id)
    \/ admin_movies
    \/ admin_populate_preferences
    \/ recommendations
    \/ \E form \in ReviewIdForms : delete_review(form)
    \/ \E form \in [movie_id : {1, 9}] : movie_detail(form)
    \/ \E form \in [show_id : {1, 9}] : show_detail(form)

SpecGates == Init /\ [][NextGates]_vars

AdminRoutes == {"admin_movies", "admin_populate_preferences", "admin_delete_movie",
                "admin_add_movie"}

LoginRoutes == {"recommendations", "delete_review", "edit_review", "add_review",
                "add_friend", "remove_friend"}

GateNotices ==
    {"Please log in to access this page.", "User not found.",
     "Access denied. Admin privileges required.", LookupErrorNotice}

\* the answer did not come from a gate: the handler body ran
BodyRan == response'.flash \notin GateNotices

StoredAdmin == \E u \in User : u.User_ID = session.user_id /\ u.Role = "admin"

\* C12: the body of an admin-gated handler runs only in a step that starts
\* with a user_id in the session whose User row exists and has Role 'admin';
\* the body of a login-gated handler runs only with a user_id in the session.
C12_BodiesRunOnlyBehindGates ==
    [][/\ (request'.route \in AdminRoutes /\ BodyRan)
             => /\ session.user_id # NULL
                /\ \E u \in User : u.User_ID = session.user_id
                /\ StoredAdmin
       /\ (request'.route \in LoginRoutes /\ BodyRan)
             => /\ session.user_id # NULL
                /\ session.user_name # MISSING]_vars

\* alice logged in as a normal user, was made admin in the table afterwards,
\* and the admin listing ran for her
C12_Witness ==
    /\ request.route = "admin_movies"
    /\ response.goto = "admin_movies.html"
    /\ session.user_role = "normal_user"
    /\ StoredAdmin

DetailShown ==
    /\ request.route \in {"movie_detail", "show_detail"}
    /\ response.goto \in {"movie_detail.html", "show_detail.html"}

\* C13: the can_edit flag that movie_detail and show_detail hand to the page
\* says whether the role stored for the session user, at the time of the
\* request, is 'admin'.
C13_CanEditFollowsStoredRole ==
    DetailShown => (response.data.can_edit = StoredAdmin)

\* the admin gates do follow the stored role: after a role change the next
\* admin request is answered by the stored role, not by the one cached at login
C13_GateFollowsStoredRole ==
    [][(/\ request'.route \in AdminRoutes
        /\ session.user_id # NULL
        /\ response'.flash # LookupErrorNotice)
          => (BodyRan <=> StoredAdmin)]_vars

EntityTypes == {"company", "celebrity", "movie"}

EntityIds == {1, 2}

\* C14: for every type and id, can_edit_content is true exactly when the
\* session user's row exists and either its Role is 'admin', or its Role is
\* 'verified_user', the type is 'company' or 'celebrity', and the row's
\* verified_entity_type and verified_entity_id equal the type and the id.
C14_CanEditContent ==
    \A t \in EntityTypes, id \in EntityIds :
        can_edit_content(t, id) <=>
            \E u \in User :
                /\ session.user_id # NULL
                /\ u.User_ID = session.user_id
                /\ \/ u.Role = "admin"
                   \/ /\ u.Role = "verified_user"
                      /\ t \in {"company", "celebrity"}
                      /\ u.verified_entity_type = t
                      /\ u.verified_entity_id = id

\* carol, a verified user linked to company 1, is logged in: she may edit
\* company 1 and nothing else
C14_Witness ==
    /\ \E u \in User : /\ u.User_ID = session.user_id
                       /\ u.Role = "verified_user"
                       /\ u.verified_entity_type = "company"
                       /\ u.verified_entity_id = 1
    /\ can_edit_content("company", 1)
    /\ ~can_edit_content("company", 2)
    /\ ~can_edit_content("celebrity", 1)
    /\ ~can_edit_content("movie", 1)

NothingWritten == db' = db /\ session' = session /\ deleted' = deleted

\* C15: a gated request that the gate turns away (no session user, stored row
\* missing, stored role not admin, or the role lookup raising) is answered by
\* a redirect to login or home with a notice, the handler body makes no call,
\* and nothing is written.
C15_DenialRedirectsWithNotice ==
    [][/\ (request'.route \in LoginRoutes /\ session.user_id = NULL)
             => /\ response' = Reply("Please log in to access this page.", "login", <<>>)
                /\ NothingWritten
       /\ (/\ request'.route \in AdminRoutes
           /\ \/ session.user_id = NULL
              \/ ~StoredAdmin
              \/ response'.flash = LookupErrorNotice)
             => /\ response'.goto \in {"login", "home"}
                /\ response'.flash \in GateNotices
                /\ response'.calls \in {<<>>, <<"get_user_by_id">>}
                /\ response'.data = <<>>
                /\ NothingWritten]_vars

\* the row of the logged-in user was deleted; the admin gate answered with
\* its notice and sent the client to login
C15_Witness ==
    /\ request.route \in AdminRoutes
    /\ session.user_id # NULL
    /\ \A u \in User : u.User_ID # session.user_id
    /\ response.flash = "User not found."
    /\ response.goto = "login"

----------------------------------------------------------------------------
(* The target of a review *)

OneTarget(r) == (r.Movie_ID = NULL) # (r.Show_ID = NULL)

\* C16: add_review calls create_review only for a form that names exactly one
\* of a movie and a show (an id of 0 or of non-numeric text names nothing);
\* edit_review changes no review's Movie_ID, Show_ID or User_ID; and every
\* stored review refers to exactly one of a movie and a show.
C16_ExactlyOneTarget ==
    /\ [][/\ (request'.route = "add_review" /\ Called(response', "create_review"))
                => ExactlyOneTarget(request'.form)
          /\ \A r \in Reviews' \ Reviews :
                request'.route = "add_review" => OneTarget(r)
          /\ request'.route = "edit_review" =>
                /\ {r.Review_ID : r \in Reviews'} = {r.Review_ID : r \in Reviews}
                /\ \A r \in Reviews : \A q \in Reviews' :
                      q.Review_ID = r.Review_ID =>
                         /\ q.Movie_ID = r.Movie_ID
                         /\ q.Show_ID = r.Show_ID
                         /\ q.User_ID = r.User_ID]_vars
    /\ [](\A r \in Reviews : OneTarget(r))

\* a review of movie 1 was added from a form that also carried show_id 0,
\* and a review of a show is stored as well
C16_Witness ==
    /\ request.route = "add_review"
    /\ request.form.movie_id = "1"
    /\ request.form.show_id = "0"
    /\ response.flash = AddedNotice
    /\ \E r \in Reviews : r.Movie_ID = 1 /\ r.Show_ID = NULL
    /\ \E r \in Reviews : r.Movie_ID = NULL /\ r.Show_ID = 1

----------------------------------------------------------------------------
(* Friendships: removal and duplicates *)

Joins(f, a, b) ==
    \/ (f.User_ID1 = a /\ f.User_ID2 = b)
    \/ (f.User_ID1 = b /\ f.User_ID2 = a)

FriendIdGiven == IntTruthy(ParseInt(request'.form.friend_id))

\* C17: after a remove_friend request of user A naming B, are_friends(A,B)
\* and are_friends(B,A) are false whichever way the row was stored, and every
\* row that does not join A and B is still there; remove_friendship returns
\* true exactly when a row joins the two users, and removes nothing else.
C17_RemoveEitherOrientation ==
    /\ [][(/\ request'.route = "remove_friend"
           /\ session.user_id # NULL
           /\ FriendIdGiven)
            => \A a, b \in UserIds \cup {9} :
                  (a = session.user_id /\ b = ParseInt(request'.form.friend_id))
                     => /\ ~are_friends(a, b)'
                        /\ ~are_friends(b, a)'
                        /\ Friends' = {f \in Friends : ~Joins(f, a, b)}]_vars
    /\ [](\A a, b \in UserIds \cup {9} :
             LET r == remove_friendship(a, b)
             IN  /\ r.ret <=> (\E f \in Friends : Joins(f, a, b))
                 /\ r.Friends = {f \in Friends : ~Joins(f, a, b)})

\* the session user removed a friend with a smaller id, while another
\* friendship, stored with the session user second, is still there
C17_Witness ==
    /\ request.route = "remove_friend"
    /\ response.flash = "Friend removed successfully!"
    /\ IntTruthy(ParseInt(request.form.friend_id))
    /\ \A f \in Friends : ~Joins(f, session.user_id, ParseInt(request.form.friend_id))
    /\ \E f \in Friends : f.User_ID2 = session.user_id /\ f.User_ID1 # session.user_id
    /\ ParseInt(request.form.friend_id) < session.user_id

AddFriendFailedNotice == "Failed to add friend. You may already be friends."

\* C18: an add_friend request of user A naming B, when a row joins A and B in
\* either orientation, gets the failure notice and leaves Friends unchanged;
\* Friends never holds two rows for one unordered pair of users.
C18_OneRowPerPair ==
    /\ [][(/\ request'.route = "add_friend"
           /\ session.user_id # NULL
           /\ \E f \in Friends :
                 Joins(f, session.user_id, ParseInt(request'.form.friend_id)))
            => /\ response'.flash = AddFriendFailedNotice
               /\ Friends' = Friends]_vars
    /\ [](\A f, g \in Friends : Joins(f, g.User_ID1, g.User_ID2) => f = g)

\* alice asked to add bob although bob had already added alice
C18_Witness ==
    /\ request.route = "add_friend"
    /\ response.flash = AddFriendFailedNotice
    /\ \E f \in Friends : /\ f.User_ID2 = session.user_id
                          /\ f.User_ID1 = ParseInt(request.form.friend_id)
                          /\ f.User_ID1 # f.User_ID2

----------------------------------------------------------------------------
(* Friend lists *)

ListedIds(results) == UNION {{rows[i].User_ID : i \in 1..Len(rows)} : rows \in results}

RECURSIVE Contains(_, _)
\* text holds the string q as a run of consecutive characters
Contains(text, q) ==
    \/ (Len(text) >= Len(q) /\ SubSeq(text, 1, Len(q)) = q)
    \/ (text # <<>> /\ Contains(Tail(text), q))

\* for every user A: B is listed by get_user_friends(A), and by
\* get_user_friends_filtered(A) without a search string, exactly when
\* are_friends(A, B)
C19_ListsFollowAreFriends ==
    \A a, b \in UserIds :
        /\ b \in ListedIds(get_user_friends(a)) <=> are_friends(a, b)
        /\ b \in ListedIds(get_user_friends_filtered(a, <<>>)) <=> are_friends(a, b)

\* C19: the friend lists of A hold B exactly when are_friends(A, B), whichever
\* user is stored first; and with a search string the filtered list holds
\* exactly the friends whose name or email contains the string.
C19_FriendListsMatch ==
    /\ C19_ListsFollowAreFriends
    /\ \A a \in UserIds : \A q \in FriendSearchTexts \ {<<>>} :
          ListedIds(get_user_friends_filtered(a, q)) =
              {u.User_ID : u \in {x \in User : /\ are_friends(a, x.User_ID)
                                               /\ \/ Contains(Spell(x.Name), q)
                                                  \/ Contains(Spell(x.Email), q)}}

\* a search string without wildcard characters does select by containment
C19_PlainSearchIsContainment ==
    \A a \in UserIds : \A q \in FriendSearchTexts \ {<<>>, <<"_">>} :
        ListedIds(get_user_friends_filtered(a, q)) =
            {u.User_ID : u \in {x \in User : /\ are_friends(a, x.User_ID)
                                             /\ \/ Contains(Spell(x.Name), q)
                                                \/ Contains(Spell(x.Email), q)}}

----------------------------------------------------------------------------
(* Friend recommendations: the rating of a candidate *)

AllReviewsOf(movie_id) == {r \in Reviews : r.Movie_ID = movie_id}

\* C20: every row of get_friend_recommendations carries the average score and
\* the number of all reviews of its movie, by any user, and of two rows with
\* equal friend_likes the one whose movie has the higher such average comes
\* first.
C20_OwnAverageBreaksTies ==
    \A u \in UserIds : \A rows \in get_friend_recommendations(u, 10) :
        /\ \A i \in 1..Len(rows) :
              /\ rows[i].avg_rating = RoundAvg(AllReviewsOf(rows[i].Movie_ID))
              /\ rows[i].review_count = Cardinality(AllReviewsOf(rows[i].Movie_ID))
        /\ \A i, j \in 1..Len(rows) :
              (/\ rows[i].friend_likes = rows[j].friend_likes
               /\ RoundAvg(AllReviewsOf(rows[i].Movie_ID))
                     > RoundAvg(AllReviewsOf(rows[j].Movie_ID)))
                 => i < j

\* what the rows do carry: the average and the number of the joined rows,
\* that is of the friends' reviews scored 7.0 or higher, once per friendship row
C20_AverageOverFriendLikes ==
    \A u \in UserIds : \A rows \in get_friend_recommendations(u, 10) :
        \A i \in 1..Len(rows) :
            LET liked == {r \in AllReviewsOf(rows[i].Movie_ID) :
                             /\ r.Score >= 70
                             /\ \E f \in Friends : Joins(f, u, r.User_ID)}
            IN  /\ rows[i].avg_rating = RoundAvg(liked)
                /\ rows[i].review_count = Cardinality(liked)

----------------------------------------------------------------------------
(* Preference recommendations: ties, size and repeatability *)

\* the unrounded average of all reviews of movie a is above that of movie b;
\* a movie without reviews is below every reviewed one
OwnAvgGreater(a, b) ==
    /\ AllReviewsOf(a) # {}
    /\ \/ AllReviewsOf(b) = {}
       \/ SumScores(AllReviewsOf(a)) * Cardinality(AllReviewsOf(b))
             > SumScores(AllReviewsOf(b)) * Cardinality(AllReviewsOf(a))

OwnAvgEqual(a, b) == ~OwnAvgGreater(a, b) /\ ~OwnAvgGreater(b, a)

\* C21: in every result of get_movie_recommendations the review_count of a
\* row is the number of Reviews rows of its movie; rows with equal preference
\* score are ordered by average rating descending, and rows equal on both by
\* that number of reviews descending.
C21_TiesByAverageThenCount ==
    \A u \in UserIds : \A rows \in get_movie_recommendations(u, 10) :
        /\ \A i \in 1..Len(rows) :
              rows[i].review_count = Cardinality(AllReviewsOf(rows[i].Movie_ID))
        /\ \A i, j \in 1..Len(rows) :
              (/\ rows[i].max_preference_score = rows[j].max_preference_score
               /\ \/ OwnAvgGreater(rows[i].Movie_ID, rows[j].Movie_ID)
                  \/ /\ OwnAvgEqual(rows[i].Movie_ID, rows[j].Movie_ID)
                     /\ Cardinality(AllReviewsOf(rows[i].Movie_ID))
                           > Cardinality(AllReviewsOf(rows[j].Movie_ID)))
                 => i < j

\* what the rows do carry: the number of reviews times the number of the
\* user's stored preferences among the movie's genres (once if there is none);
\* the first tie-break, by average rating, is as stated
C21_CountTimesPreferences ==
    \A u \in UserIds : \A rows \in get_movie_recommendations(u, 10) :
        /\ \A i \in 1..Len(rows) :
              LET stored == {up \in User_Preferences :
                                /\ up.User_ID = u
                                /\ \E mg \in Movie_Genre :
                                      /\ mg.Movie_ID = rows[i].Movie_ID
                                      /\ mg.Genre_ID = up.Genre_ID}
              IN  rows[i].review_count =
                      Cardinality(AllReviewsOf(rows[i].Movie_ID))
                          * (IF stored = {} THEN 1 ELSE Cardinality(stored))
        /\ \A i, j \in 1..Len(rows) :
              (/\ rows[i].max_preference_score = rows[j].max_preference_score
               /\ OwnAvgGreater(rows[i].Movie_ID, rows[j].Movie_ID))
                 => i < j

MaxLimit == 3
MaxLimitRows == 2

\* the catalog with a third movie that was added without genres
LimitMovie == InitMovie \cup {[Movie_ID |-> 3, Title |-> <<"b">>]}

InitLimit ==
    /\ User = InitUser
    /\ Movie = LimitMovie
    /\ TV_Show = InitTV_Show
    /\ Movie_Genre = InitMovie_Genre
    /\ Reviews \in {rs \in RecReviewSets : Cardinality(rs) <= MaxLimitRows}
    /\ \/ Friends \in RecFriendSets /\ User_Preferences = {}
       \/ Friends = {} /\ User_Preferences \in RecPreferenceSets
    /\ next_id = [User |-> 4, Movie |-> 4, Reviews |-> 7]
    /\ session = NoSession
    /\ request = InitRequest
    /\ response = Reply("", "none", <<>>)
    /\ deleted = {}

NextLimit ==
    \/ \E limit \in 1..(MaxLimit - 1) : call_get_movie_recommendations(1, limit)
    \/ \E limit \in 1..(MaxLimit - 1) : call_get_friend_recommendations(1, limit)

SpecLimit == InitLimit /\ [][NextLimit]_vars

NotReviewedBy(u) == {m.Movie_ID : m \in {x \in Movie : ~HasReviewed(u, x.Movie_ID)}}

\* C22: for every user U and limit, get_movie_recommendations(U, limit)
\* returns min(limit, n) rows, n being the number of movies U has not
\* reviewed, no movie twice and only movies U has not reviewed; when
\* n <= limit the rows are exactly the movies U has not reviewed.
C22_SizeAndCandidates ==
    \A u \in UserIds : \A limit \in (0..MaxLimit) \cup {10} :
        \A rows \in get_movie_recommendations(u, limit) :
            LET n == Cardinality(NotReviewedBy(u))
            IN  /\ Len(rows) = Min(limit, n)
                /\ \A i, j \in 1..Len(rows) :
                      rows[i].Movie_ID = rows[j].Movie_ID => i = j
                /\ {rows[i].Movie_ID : i \in 1..Len(rows)} \subseteq NotReviewedBy(u)
                /\ n <= limit =>
                      {rows[i].Movie_ID : i \in 1..Len(rows)} = NotReviewedBy(u)

\* alice has reviewed one movie; a call with limit 2 returned the two others,
\* among them the movie without genres, reviews or stored preference
C22_Witness ==
    /\ request.route = "get_movie_recommendations"
    /\ request.form.limit = 2
    /\ Cardinality(NotReviewedBy(1)) = 2
    /\ Len(response.data) = 2
    /\ \E i \in 1..2 : /\ response.data[i].Movie_ID = 3
                       /\ response.data[i].review_count = 0
                       /\ response.data[i].max_preference_score = 0
    /\ \E up \in User_Preferences : up.User_ID = 1

\* C23: for every user and limit each of the two recommendation queries has
\* one possible result: the same movies in the same order on every execution.
C23_OneResultPerState ==
    \A u \in UserIds : \A limit \in 0..MaxLimit :
        /\ \A r1, r2 \in get_movie_recommendations(u, limit) : r1 = r2
        /\ \A r1, r2 \in get_friend_recommendations(u, limit) : r1 = r2

\* the movies returned are the same on every execution when the limit does
\* not cut the candidates
C23_SameMoviesWhenUncut ==
    \A u \in UserIds :
        /\ \A r1, r2 \in get_movie_recommendations(u, 10) : RowsOf(r1) = RowsOf(r2)
        /\ \A r1, r2 \in get_friend_recommendations(u, 10) : RowsOf(r1) = RowsOf(r2)

----------------------------------------------------------------------------
(* Filtered listing *)

\* the movies a genre and a text select: those with an association to the
\* genre, when one is given, whose title contains the text, when one is given
Selected(genre_id, text) ==
    {m \in Movie :
        /\ IntTruthy(genre_id) => \E mg \in Movie_Genre : /\ mg.Movie_ID = m.Movie_ID
                                                         /\ mg.Genre_ID = genre_id
        /\ text # <<>> => Contains(m.Title, text)}

\* rows are the movies S, each once, in title order, annotated as
\* get_all_movies annotates them
ListsExactly(rows, S) ==
    /\ RowIds(rows) = {m.Movie_ID : m \in S}
    /\ Len(rows) = Cardinality(S)
    /\ \A i, j \in 1..Len(rows) : TextLess(rows[i].Title, rows[j].Title) => i < j
    /\ \A i \in 1..Len(rows) : \E all \in get_all_movies : rows[i] \in RowsOf(all)

\* C24: for every genre and text, get_movies_filtered returns exactly the
\* movies associated with the genre (when given) whose title contains the
\* text (when given), each once, in title order, with the review_count and
\* avg_rating that get_all_movies reports.
C24_FilteredListing ==
    \A g \in {NULL, 0} \cup Genres, q \in SearchTexts :
        \A rows \in get_movies_filtered(g, q) : ListsExactly(rows, Selected(g, q))

\* the same, for texts without wildcard characters
C24_PlainTextFilteredListing ==
    \A g \in {NULL, 0} \cup Genres, q \in SearchTexts \ {<<"_">>} :
        \A rows \in get_movies_filtered(g, q) : ListsExactly(rows, Selected(g, q))

----------------------------------------------------------------------------
(* The session: written by login, cleared by logout *)

GatedRoutes == LoginRoutes \cup AdminRoutes

\* the form names a stored user and carries that user's password
Authenticates(form) ==
    /\ StrTruthy(form.email)
    /\ StrTruthy(form.password)
    /\ \E u \in User : u.Email = form.email /\ verify_password(u, form.password)

\* C25: a logout request leaves the session without user_id, user_name and
\* user_role; while the session has no user_id every request to a gated
\* route is redirected to login and leaves the session as it is; and the
\* session gets a user_id again only by a login request whose email and
\* password are those of a stored user.
C25_LoggedOutUntilLogin ==
    [][/\ request'.route = "logout" => session' = NoSession
       /\ (session.user_id = NULL /\ request'.route \in GatedRoutes)
             => /\ response'.goto = "login"
                /\ response'.flash = "Please log in to access this page."
                /\ session' = session
       /\ (session.user_id = NULL /\ session'.user_id # NULL)
             => /\ request'.route = "login"
                /\ Authenticates(request'.form)]_vars

\* after a logout, a request for the recommendations was sent to login
C25_Witness ==
    /\ request.route = "recommendations"
    /\ response.goto = "login"
    /\ session = NoSession
    /\ \E u \in User : u.Role = "verified_user"

LoginWrote(u) ==
    session' = [user_id |-> u.User_ID, user_name |-> u.Name, user_role |-> u.Role]

\* C29: the session's user_id, user_name and user_role are written together,
\* by a login request whose email is that of a stored user and whose password
\* verifies against that user's hash, and removed together, by logout; a
\* login request with a missing field, an unknown email, a wrong password or
\* a failing lookup leaves the session as it was.
C29_SessionWrittenByLoginOnly ==
    /\ [][/\ session' # session =>
                \/ (request'.route = "logout" /\ session' = NoSession)
                \/ /\ request'.route = "login"
                   /\ StrTruthy(request'.form.email)
                   /\ StrTruthy(request'.form.password)
                   /\ \E u \in User : /\ u.Email = request'.form.email
                                      /\ verify_password(u, request'.form.password)
                                      /\ LoginWrote(u)
          /\ (/\ request'.route = "login"
              /\ \/ ~Authenticates(request'.form)
                 \/ response'.flash = LoginFailedNotice)
                => session' = session]_vars
    /\ [](session.user_id # NULL
             => (session.user_name # MISSING /\ session.user_role # MISSING))

\* alice is logged in; a login attempt with a wrong password was turned down
\* and her session is still there
C29_Witness ==
    /\ request.route = "login"
    /\ request.form.password = "zz"
    /\ response.flash = "Invalid email or password."
    /\ session.user_id = 1
    /\ session.user_name = "alice"

----------------------------------------------------------------------------
(* Pages whose queries raise *)

\* app.py errorhandler(500): db.connection.rollback(), then 500.html; the
\* rollback raises when the connection is gone and the server then answers
\* with its plain internal-error response
internal_error ==
    \E page \in {"500.html", "Internal Server Error"} :
        Answer("", page, <<"rollback">>)

\* GET /register: the two dropdown queries run outside the handler's try
register_get ==
    /\ request' = [route |-> "register", method |-> "GET", form |-> [none |-> MISSING]]
    /\ \/ Answer("", "register.html", <<"get_all_companies", "get_all_celebrities">>)
       \/ internal_error

\* GET /add_review?movie_id=&show_id=: the lookup runs outside any try
add_review_get(form) ==
    /\ request' = [route |-> "add_review", method |-> "GET", form |-> form]
    /\ login_required(
           IF IntTruthy(form.movie_id)
           THEN \/ /\ response' = ReplyData("", "add_review.html", <<"get_movie_by_id">>,
                                            get_movie_by_id(form.movie_id))
                   /\ UNCHANGED <<db, session, deleted>>
                \/ internal_error
           ELSE IF IntTruthy(form.show_id)
           THEN \/ /\ response' = ReplyData("", "add_review.html", <<"get_show_by_id">>,
                                            get_show_by_id(form.show_id))
                   /\ UNCHANGED <<db, session, deleted>>
                \/ internal_error
           ELSE Answer("Please select a movie or show to review.", "home", <<>>))

\* GET /admin/movies/edit/<movie_id>: the lookup runs inside the try of
\* admin_required, whose except answers a raising body as well
admin_edit_movie_get(movie_id) ==
    /\ request' = [route |-> "admin_edit_movie", method |-> "GET",
                   form |-> [movie_id |-> movie_id]]
    /\ admin_required(
           IF get_movie_by_id(movie_id) = {}
           THEN Answer("Movie not found.", "admin_movies", <<"get_movie_by_id">>)
           ELSE /\ response' = ReplyData("", "admin_edit_movie.html",
                                         <<"get_movie_by_id", "get_movie_genres",
                                           "get_all_genres">>,
                                         get_movie_by_id(movie_id))
                /\ UNCHANGED <<db, session, deleted>>)

AddReviewGetForms == [movie_id : {NULL, 1, 9}, show_id : {NULL, 1}]

NextPages ==
    \/ \E form \in CatalogLoginForms : login(form)
    \/ logout
    \/ \E form \in GateRegisterForms : register(form)
    \/ \E form \in ListForms : movies(form)
    \/ register_get
    \/ \E form \in AddReviewGetForms : add_review_get(form)
    \/ \E movie_id \in 1..MaxMovieId : admin_edit_movie_get(movie_id)

SpecPages == Init /\ [][NextPages]_vars

ErrorPages == {"500.html", "Internal Server Error"}

\* C26: no page request ends in the internal-error page or in an exception
\* that nothing handled: a query that raises is answered with the route's
\* page over empty data or with a redirect and a notice.
C26_QueryErrorsAreHandled ==
    response.goto \notin ErrorPages

\* C26, the routes that do catch: the listing of movies, the admin edit page
\* and login answer a raising query with a page or a redirect of their own
\* and a notice.
C26_GuardedRoutesDegrade ==
    request.route \in {"movies", "admin_edit_movie", "login"}
        => response.goto \notin ErrorPages

----------------------------------------------------------------------------
(* What a non-owner learns from edit_review and delete_review *)

NonOwnerRequest ==
    /\ TargetsReview
    /\ session.user_id # NULL
    /\ \A r \in Reviews :
           r.Review_ID = request'.form.review_id => r.User_ID # session.user_id

ReviewExists == \E r \in Reviews : r.Review_ID = request'.form.review_id

\* C27: an edit_review or delete_review request of a logged-in user for a
\* review of another user is answered exactly as the same request is answered
\* when no review has that id, with the not-found notice and the redirect to
\* the profile, so the answer does not tell whether the id exists.
C27_NonOwnerReplyHidesExistence ==
    [][(NonOwnerRequest /\ ReviewExists)
          => /\ response'.flash = NotFoundNotice
             /\ response'.goto = "profile"]_vars

\* C27, the other of the two states: the request for an id no review has is
\* answered with the not-found notice and the redirect to the profile, and
\* in both states the redirect target is the same.
C27_MissingIdReply ==
    [][/\ (NonOwnerRequest /\ ~ReviewExists)
             => /\ response'.flash = NotFoundNotice
                /\ response'.goto = "profile"
       /\ NonOwnerRequest => response'.goto = "profile"]_vars

----------------------------------------------------------------------------
(* A client without an account: register, login, logout, the admin screens *)

\* the client picks every field of the registration form, the role included
ClientRegisterForms ==
    [name : {"carol"}, email : {"c@x", "d@x"}, password : {"pc"},
     confirm_password : {"pc"}, age : {MISSING}, gender : {MISSING},
     role : {MISSING, "verified_user", "admin"}, verified_entity_type : {""},
     verified_entity_id : {MISSING}]

\* the client knows the password it registered with, and no stored user's
ClientLoginForms == [email : {"a@x", "r@x", "c@x", "d@x"}, password : {"pc"}]

NextClient ==
    \/ \E form \in ClientRegisterForms : register(form)
    \/ \E form \in ClientLoginForms : login(form)
    \/ logout
    \/ admin_movies
    \/ \E form \in MovieIdForms : admin_delete_movie(form)

SpecClient == Init /\ [][NextClient]_vars

\* C28: whatever the client registers and logs in as, no request of its to
\* an admin-gated route gets past the gate: registration cannot make an
\* account with the admin role.
C28_NoSelfMadeAdmin ==
    [][request'.route \in AdminRoutes => ~BodyRan]_vars

\* C28, what does hold: the role of a new account is the role the form
\* carries, normal_user when it carries none, and registering logs nobody in.
C28_RoleIsTheFormsRole ==
    [][request'.route = "register"
          => /\ session' = session
             /\ \A u \in User' \ User :
                    u.Role = IF request'.form.role = MISSING
                             THEN "normal_user" ELSE request'.form.role]_vars

----------------------------------------------------------------------------
(* Concurrent register requests: one request and one response per worker *)

MaxWorkers == 2

Workers == 1..MaxWorkers

\* where a worker's register request stands: no request, between the
\* existing-email check and create_user, answered
Idle == [route |-> "none", method |-> "GET", form |-> [none |-> MISSING], at |-> "idle"]

RaceForms ==
    [name : {"carol", "dave"}, email : {"c@x", "d@x"}, password : {"pc"},
     confirm_password : {"pc"}, age : {MISSING}, gender : {MISSING},
     role : {MISSING}, verified_entity_type : {""}, verified_entity_id : {MISSING}]

\* register, POST, up to the existing-email check: the form's validations
\* pass for every form of RaceForms; get_user_by_email reads the store
register_check(w, form) ==
    /\ request[w].at \in {"idle", "answered"}
    /\ next_id.User <= MaxUserId
    /\ IF get_user_by_email(form.email) # {}
       THEN /\ request' = [request EXCEPT ![w] = [route |-> "register", method |-> "POST",
                                                  form |-> form, at |-> "answered"]]
            /\ response' = [response EXCEPT ![w] =
                               Reply("Email already registered.", "register.html",
                                     <<"get_user_by_email">>)]
       ELSE /\ request' = [request EXCEPT ![w] = [route |-> "register", method |-> "POST",
                                                  form |-> form, at |-> "create_user"]]
            /\ response' = [response EXCEPT ![w] = Reply("", "none",
                                                         <<"get_user_by_email">>)]
    /\ UNCHANGED <<db, session, deleted>>

\* register, POST, from create_user on
register_create(w) ==
    /\ request[w].at = "create_user"
    /\ LET form == request[w].form
           r == create_user(form.name, form.email, form.password,
                            IF form.role = MISSING THEN "normal_user" ELSE form.role,
                            ParseInt(form.age), form.gender,
                            IF form.verified_entity_type = ""
                            THEN MISSING ELSE form.verified_entity_type,
                            ParseInt(form.verified_entity_id))
       IN  /\ request' = [request EXCEPT ![w].at = "answered"]
           /\ IF r.raised
              THEN /\ response' = [response EXCEPT ![w] =
                                      Reply("Registration failed: error", "register.html",
                                            <<"get_user_by_email", "create_user">>)]
                   /\ UNCHANGED <<db, session, deleted>>
              ELSE /\ User' = r.User
                   /\ next_id' = r.next_id
                   /\ response' = [response EXCEPT ![w] =
                                      Reply("Registration successful! Please log in.",
                                            "login", <<"get_user_by_email", "create_user">>)]
                   /\ UNCHANGED <<Movie, TV_Show, Movie_Genre, Reviews, Friends,
                                  User_Preferences, session, deleted>>

InitRace ==
    /\ User = InitUser
    /\ Movie = InitMovie
    /\ TV_Show = InitTV_Show
    /\ Movie_Genre = InitMovie_Genre
    /\ Reviews = {}
    /\ Friends = {}
    /\ User_Preferences = {}
    /\ next_id = [User |-> 4, Movie |-> 3, Reviews |-> 1]
    /\ session = NoSession
    /\ request = [w \in Workers |-> Idle]
    /\ response = [w \in Workers |-> Reply("", "none", <<>>)]
    /\ deleted = {}

NextRace ==
    \/ \E w \in Workers, form \in RaceForms : register_check(w, form)
    \/ \E w \in Workers : register_create(w)

SpecRace == InitRace /\ [][NextRace]_vars

\* C30: of the register requests in flight with one email that no user has
\* yet, at most one is past the existing-email check and on its way to
\* create_user.
C30_OnePassesTheCheck ==
    \A v, w \in Workers :
        (/\ v # w
         /\ request[v].at = "create_user"
         /\ request[w].at = "create_user")
            => request[v].form.email # request[w].form.email

\* C30, the outcome: a register request that did not create the user for
\* its email was answered with 'Email already registered.'.
C30_OthersToldAlreadyRegistered ==
    \A w \in Workers :
        (request[w].at = "answered" /\ response[w].goto # "login")
            => response[w].flash = "Email already registered."

\* C30, what the store keeps: no two users share an email, whatever the
\* interleaving, and a request that lost the race is answered with the
\* failure notice of the except branch.
C30_OneRowPerEmail ==
    /\ \A u, v \in User : u.Email = v.Email => u = v
    /\ \A w \in Workers :
           request[w].at = "answered"
               => response[w].flash \in {"Email already registered.",
                                         "Registration failed: error",
                                         "Registration successful! Please log in."}

====
